---- MODULE Spec2Model ----
(***************************************************************************)
(* Stepwise playback engine of the SecureX encryption visualizer.          *)
(*                                                                         *)
(* The module models the page component `Index` of                         *)
(* src/pages/Visualization.tsx (five stages, keyboard shortcuts) and the   *)
(* page component `Virtualization` of src/unnamed/part_002 (four stages,   *)
(* manual decryption), together with the crypto adapter                    *)
(* src/utils/x25519-cipher.ts they call.  The variable `page` says which   *)
(* of the two components is mounted; it never changes.                     *)
(*                                                                         *)
(* React state is modelled after the re-render that follows each event     *)
(* handler or timer continuation: one action is one handler (or one        *)
(* resumption of an async run up to its next await).                       *)
(***************************************************************************)
EXTENDS Integers, Sequences, FiniteSets, TLC

VARIABLES
    page,               \* which page component is mounted
    mounted,            \* FALSE after the unmount cleanup has run
    inputText,          \* useState("")            (sequence of UTF-16 code units)
    currentStep,        \* useState<VisualizationStep | null>(null)
    isPlaying,          \* useState(false)
    completedSteps,     \* useState<VisualizationStep[]>([])
    finalEncryptedText, \* useState("")
    encryptionNonce,    \* useState("")
    showXorAnimation,   \* useState(false)
    showNonceCombine,   \* useState(false)         (Index only)
    showKeyDerivation,  \* useState(false)         (Index only)
    encryptedInput,     \* useState("")
    nonceInput,         \* useState("")
    decryptedText,      \* useState("")
    alicePrivateKey,    \* useState("")            (0 is the empty string)
    bobPublicKey,       \* useState("")            (0 is the empty string)
    runIdRef,           \* useRef(0)
    timeoutRef,         \* useRef(null)            (0 is null; else the owner of the timer)
    timers,             \* pending window.setTimeout callbacks, named by the run that awaits them
    runs,               \* the async invocations of visualizeEncryption / visualizeDecryption
    manualMode,         \* useState(false)
    manualPrepared,     \* useState(false)
    manualCharIndex,    \* useState(0)
    manualStageIndex,   \* useState(0)
    manualPreviews,     \* useState<VisualizationStep[]>([])
    manualBase,         \* which preparation filled manualPreviews ("encrypt" / "decrypt")
    lastOp,             \* what the last step let the outside observe (alert, exception)
    \* the page component Tool (src/unnamed/part_000)
    myKeys,             \* useState<KeyPair | null>(null)
    toolTheirPublicKey, \* useState("")            (theirPublicKey)
    toolPlaintext,      \* useState("")            (plaintext)
    toolCiphertext,     \* useState("")            (ciphertext)
    toolNonce,          \* useState("")            (nonce)
    toolSharedSecret,   \* useState<Uint8Array | null>(null)   (sharedSecret; 0 is null)
    toast,              \* the last toast shown
    \* direct calls of the pure helpers
    fnArgs,             \* the arguments the calls are made with
    fnResult,           \* what the last call returned, or that it threw
    \* the component EnhancedXorVisualization
    enhInputs,          \* the props the effect depends on (plaintextByte, keystreamByte, speed)
    currentBitIndex,    \* useState(-1)
    isComplete,         \* useState(false)
    animations,         \* the invocations of animateBits, one per run of the effect
    enhEffects,         \* how often the effect has run (0: the component is not rendered)
    \* the component XorVisualization
    xorMounted,         \* the component is rendered
    xorInputs,          \* the props the effect depends on (the bytes, speed, onComplete)
    currentBit,         \* useState(-1)
    completed,          \* useState(false)
    effects,            \* the timer, interval and onComplete timeout of each run of the effect
    xorEffects          \* how often the effect has run

progVars == <<page, mounted, inputText, currentStep, isPlaying, completedSteps,
              finalEncryptedText, encryptionNonce, showXorAnimation,
              showNonceCombine, showKeyDerivation, encryptedInput, nonceInput,
              decryptedText, alicePrivateKey, bobPublicKey, runIdRef,
              timeoutRef, timers, runs, manualMode, manualPrepared,
              manualCharIndex, manualStageIndex, manualPreviews, manualBase>>

toolVars == <<myKeys, toolTheirPublicKey, toolPlaintext, toolCiphertext, toolNonce,
              toolSharedSecret, toast>>

fnVars == <<fnArgs, fnResult>>

enhVars == <<enhInputs, currentBitIndex, isComplete, animations, enhEffects>>

xorVars == <<xorMounted, xorInputs, currentBit, completed, effects, xorEffects>>

compVars == <<enhVars, xorVars>>

vars == <<progVars, lastOp, toolVars, fnVars, compVars>>

displayVars == <<currentStep, completedSteps, finalEncryptedText, decryptedText,
                 isPlaying, showXorAnimation, showNonceCombine>>

(***************************************************************************)
(* Bounds of the model.                                                    *)
(***************************************************************************)
MaxLen == 2        \* longest input text the user types
MaxRunId == 3      \* cap on runIdRef
NumKeys == 2       \* outcomes of the random key generation
NumNonces == 1     \* nonces the random generator can return

Master == <<72, 233, 105, 72, 233>>      \* "H", e-acute, "i", ...
Texts == {<<>>, SubSeq(Master, 1, MaxLen)}
Keys == 1..NumKeys
\* the two generateKeyPair() calls of a run are drawn jointly: outcome k of the
\* random source gives Alice key pair k and Bob key pair k
BobDraws(a) == {a}
Nonces == 1..NumNonces
RunIds == 1..MaxRunId

(***************************************************************************)
(* Bytes.                                                                  *)
(***************************************************************************)
RECURSIVE Xor(_, _)
Xor(a, b) ==
    IF a = 0 /\ b = 0 THEN 0
    ELSE ((((a % 2) + (b % 2)) % 2) + (2 * Xor(a \div 2, b \div 2)))

RECURSIVE SumSeq(_)
SumSeq(s) == IF s = <<>> THEN 0 ELSE Head(s) + SumSeq(Tail(s))

At(s, i) == IF i \in 1..Len(s) THEN s[i] ELSE 0      \* (a[i] || 0)

Max(a, b) == IF a >= b THEN a ELSE b

\* faulty variant: the result is as long as the shorter argument
xorBytesTruncating(a, b) ==
    [i \in 1..(IF Len(a) <= Len(b) THEN Len(a) ELSE Len(b)) |-> Xor(At(a, i), At(b, i))]

\* faulty variant: the second argument is read one place further on
xorBytesMisaligned(a, b) == [i \in 1..Max(Len(a), Len(b)) |-> Xor(At(a, i), At(b, i + 1))]

xorBytes(a, b) == [i \in 1..Max(Len(a), Len(b)) |-> Xor(At(a, i), At(b, i))]

(***************************************************************************)
(* TextEncoder / TextDecoder (UTF-8) on sequences of UTF-16 code units of  *)
(* the basic plane.                                                        *)
(***************************************************************************)
IsSurrogate(c) == c >= 55296 /\ c <= 57343

EncodeUnit(c) ==
    IF c < 128 THEN <<c>>
    ELSE IF c < 2048 THEN <<192 + (c \div 64), 128 + (c % 64)>>
    ELSE IF IsSurrogate(c) THEN <<239, 191, 189>>
    ELSE <<224 + (c \div 4096), 128 + ((c \div 64) % 64), 128 + (c % 64)>>

IsHighSurrogate(c) == c >= 55296 /\ c <= 56319
IsLowSurrogate(c) == c >= 56320 /\ c <= 57343

\* the four bytes of a code point beyond the basic plane
EncodePoint(cp) ==
    <<240 + (cp \div 262144), 128 + ((cp \div 4096) % 64), 128 + ((cp \div 64) % 64),
      128 + (cp % 64)>>

\* a high surrogate followed by a low one is one code point; a surrogate
\* on its own is replaced by U+FFFD
RECURSIVE TextEncode(_)
TextEncode(s) ==
    IF s = <<>> THEN <<>>
    ELSE IF Len(s) >= 2 /\ IsHighSurrogate(s[1]) /\ IsLowSurrogate(s[2])
         THEN EncodePoint(65536 + ((s[1] - 55296) * 1024) + (s[2] - 56320))
              \o TextEncode(SubSeq(s, 3, Len(s)))
    ELSE EncodeUnit(Head(s)) \o TextEncode(Tail(s))

IsCont(b) == b >= 128 /\ b < 192

RECURSIVE TextDecode(_)
TextDecode(b) ==
    IF b = <<>> THEN <<>>
    ELSE IF b[1] < 128 THEN <<b[1]>> \o TextDecode(Tail(b))
    ELSE IF b[1] >= 194 /\ b[1] < 224 /\ Len(b) >= 2 /\ IsCont(b[2])
         THEN <<((b[1] - 192) * 64) + (b[2] - 128)>> \o TextDecode(SubSeq(b, 3, Len(b)))
    ELSE IF b[1] >= 224 /\ b[1] < 240 /\ Len(b) >= 3 /\ IsCont(b[2]) /\ IsCont(b[3])
         THEN <<((b[1] - 224) * 4096) + ((b[2] - 128) * 64) + (b[3] - 128)>>
              \o TextDecode(SubSeq(b, 4, Len(b)))
    ELSE IF b[1] >= 240 /\ b[1] < 245 /\ Len(b) >= 4 /\ IsCont(b[2]) /\ IsCont(b[3])
            /\ IsCont(b[4])
         THEN LET cp == ((b[1] - 240) * 262144) + ((b[2] - 128) * 4096)
                        + ((b[3] - 128) * 64) + (b[4] - 128)
              IN  <<55296 + ((cp - 65536) \div 1024), 56320 + ((cp - 65536) % 1024)>>
                  \o TextDecode(SubSeq(b, 5, Len(b)))
    ELSE <<65533>> \o TextDecode(Tail(b))

(***************************************************************************)
(* Base64 text.  A string is empty, well-formed base64 of a byte sequence, *)
(* or something decodeBase64 rejects.                                      *)
(***************************************************************************)
EmptyStr == [kind |-> "empty"]
Garbage == [kind |-> "garbage"]
encodeBase64(bytes) == [kind |-> "b64", bytes |-> bytes]
Truthy(str) == str.kind # "empty"
Decodable(str) == str.kind # "garbage"
decodeBase64(str) == IF str.kind = "b64" THEN str.bytes ELSE <<>>
base64ToBytes(str) == IF str.kind = "b64" THEN str.bytes ELSE <<>>

(***************************************************************************)
(* The primitives of tweetnacl as the adapter uses them.  The key          *)
(* agreement is commutative; the secretbox is a keystream XOR preceded by  *)
(* an authenticator that verifies only under the key and nonce that made   *)
(* it and only for the body it was made for.                               *)
(***************************************************************************)
NullKeys == [publicKey |-> 0, privateKey |-> 0]

generateKeyPair(k) == [publicKey |-> k, privateKey |-> k]

deriveSharedSecret(myPrivateKey, theirPublicKey) == myPrivateKey * theirPublicKey

Keystream(secret, nonce, i) == ((secret * 37) + (nonce * 101) + (i * 59) + 11) % 256

SecretboxTag(secret, nonce, body) ==
    <<secret % 256, nonce % 256, Len(body) % 256, SumSeq(body) % 256>>

\* the authenticator precedes the body of every box
TagLen == Len(SecretboxTag(0, 0, <<>>))

secretbox(messageBytes, nonce, secret) ==
    LET body == [i \in 1..Len(messageBytes) |->
                    Xor(messageBytes[i], Keystream(secret, nonce, i))]
    IN  SecretboxTag(secret, nonce, body) \o body

\* faulty variant: the authenticator is compared on its key and nonce part only
SecretboxVerifiesKeyOnly(box, nonce, secret) ==
    /\ Len(box) >= TagLen
    /\ SubSeq(box, 1, 2) = SubSeq(SecretboxTag(secret, nonce, <<>>), 1, 2)

\* faulty variant: the authenticator is not bound to the key
SecretboxVerifiesAnyKey(box, nonce, secret) ==
    /\ Len(box) >= TagLen
    /\ SubSeq(box, 2, TagLen) =
           SubSeq(SecretboxTag(secret, nonce, SubSeq(box, TagLen + 1, Len(box))), 2, TagLen)

SecretboxVerifies(box, nonce, secret) ==
    /\ Len(box) >= TagLen
    /\ SubSeq(box, 1, TagLen) = SecretboxTag(secret, nonce, SubSeq(box, TagLen + 1, Len(box)))

secretboxOpen(box, nonce, secret) ==
    LET body == SubSeq(box, TagLen + 1, Len(box))
    IN  [i \in 1..Len(body) |-> Xor(body[i], Keystream(secret, nonce, i))]

\* encryptMessage with the nonce the random source returned
encryptMessage(message, sharedSecret, n) ==
    [ciphertext |-> encodeBase64(secretbox(TextEncode(message), n, sharedSecret)),
     nonce |-> encodeBase64(<<n>>)]

\* decryptMessage throws exactly when DecryptOk is false
DecryptOk(ciphertext, nonce, sharedSecret) ==
    /\ Decodable(ciphertext)
    /\ Decodable(nonce)
    /\ Len(decodeBase64(nonce)) = 1
    /\ SecretboxVerifies(decodeBase64(ciphertext), decodeBase64(nonce)[1], sharedSecret)

decryptMessage(ciphertext, nonce, sharedSecret) ==
    TextDecode(secretboxOpen(decodeBase64(ciphertext), decodeBase64(nonce)[1], sharedSecret))

(***************************************************************************)
(* Stage tables.                                                           *)
(***************************************************************************)
stagesOrder ==
    IF page = "Index"
    THEN <<"original", "numeric", "xor-operation", "nonce-combine", "encrypted">>
    ELSE <<"original", "numeric", "xor-operation", "encrypted">>

\* faulty variant: the numeric and the XOR stage change places
EncStagesSwapped ==
    IF page = "Index"
    THEN << [stage |-> "original",      stageLabel |-> "Original Character"],
            [stage |-> "xor-operation", stageLabel |-> "XOR Operation (bit-by-bit)"],
            [stage |-> "numeric",       stageLabel |-> "Numeric Mapping (bytes)"],
            [stage |-> "nonce-combine", stageLabel |-> "Nonce Combination"],
            [stage |-> "encrypted",     stageLabel |-> "Final Encrypted Value"] >>
    ELSE << [stage |-> "original",      stageLabel |-> "Original Character"],
            [stage |-> "xor-operation", stageLabel |-> "XOR Operation (bit-by-bit)"],
            [stage |-> "numeric",       stageLabel |-> "Numeric Mapping (bytes)"],
            [stage |-> "encrypted",     stageLabel |-> "Final Encrypted Value"] >>

\* the `stages` array local to visualizeEncryption
EncStages ==
    IF page = "Index"
    THEN << [stage |-> "original",      stageLabel |-> "Original Character"],
            [stage |-> "numeric",       stageLabel |-> "Numeric Mapping (bytes)"],
            [stage |-> "xor-operation", stageLabel |-> "XOR Operation (bit-by-bit)"],
            [stage |-> "nonce-combine", stageLabel |-> "Nonce Combination"],
            [stage |-> "encrypted",     stageLabel |-> "Final Encrypted Value"] >>
    ELSE << [stage |-> "original",      stageLabel |-> "Original Character"],
            [stage |-> "numeric",       stageLabel |-> "Numeric Mapping (bytes)"],
            [stage |-> "xor-operation", stageLabel |-> "XOR Operation (bit-by-bit)"],
            [stage |-> "encrypted",     stageLabel |-> "Final Encrypted Value"] >>

\* the `stages` array local to visualizeDecryption
DecStages ==
    IF page = "Index"
    THEN << [stage |-> "encrypted",     stageLabel |-> "Encrypted Value"],
            [stage |-> "nonce-combine", stageLabel |-> "Extract from Nonce"],
            [stage |-> "xor-operation", stageLabel |-> "XOR Operation (bit-by-bit)"],
            [stage |-> "numeric",       stageLabel |-> "Numeric Mapping (bytes)"],
            [stage |-> "original",      stageLabel |-> "Original Character Recovered"] >>
    ELSE << [stage |-> "encrypted",     stageLabel |-> "Encrypted Value"],
            [stage |-> "xor-operation", stageLabel |-> "XOR Operation (bit-by-bit)"],
            [stage |-> "numeric",       stageLabel |-> "Numeric Mapping (bytes)"],
            [stage |-> "original",      stageLabel |-> "Original Character Recovered"] >>

RunStages(kind) == IF kind = "enc" THEN EncStages ELSE DecStages

\* stageLabelMap[stage] || stage   of updateCurrentStepFromManual
stageLabelMap(stage, base) ==
    CASE stage = "original"      -> "Original Character"
      [] stage = "numeric"       -> "Numeric Mapping (bytes)"
      [] stage = "xor-operation" -> "XOR Operation (bit-by-bit)"
      [] stage = "nonce-combine" -> "Nonce Combination"
      [] stage = "encrypted"     ->
            IF page = "Index" \/ base = "encrypt" THEN "Final Encrypted Value"
            ELSE "Encrypted Value"
      [] OTHER -> stage

(***************************************************************************)
(* Display records.                                                        *)
(***************************************************************************)
NullStep == [stage |-> "null"]

Take(s, n) == SubSeq(s, 1, IF Len(s) < n THEN Len(s) ELSE n)

\* the VisualizationStep literal built for character `char` at index i0 from
\* its single-character ciphertext
StepRecord(i0, char, stage, stageLabel, sharedSecret, ciphertext) ==
    LET charBytesArr == TextEncode(<<char>>)
        cipherBytes == base64ToBytes(ciphertext)
        keystreamBytes == xorBytes(cipherBytes, charBytesArr)
    IN  [charIndex |-> i0,
         char |-> char,
         charCode |-> char,
         encrypted |-> Take(cipherBytes, 12),
         stage |-> stage,
         stageLabel |-> stageLabel,
         charBytes |-> charBytesArr,
         sharedSecretHex |-> sharedSecret,
         keystreamHex |-> Take(keystreamBytes, 16),
         ciphertextBytes |-> cipherBytes,
         plaintextByte |-> At(charBytesArr, 1),
         keystreamByte |-> At(keystreamBytes, 1)]

\* the result byte EnhancedXorVisualization computes from its two props
resultByte(step) == Xor(step.plaintextByte, step.keystreamByte)

WithStage(step, stage, stageLabel) ==
    [step EXCEPT !.stage = stage, !.stageLabel = stageLabel]

(***************************************************************************)
(* Async runs and their timers.                                            *)
(***************************************************************************)
IdleRun == [pc |-> "idle"]
Waiting == {"stage", "complete"}

\* a run awaiting a timer that was cleared never resumes
Reap(rs, ts) ==
    [g \in RunIds |-> IF rs[g].pc \in Waiting /\ g \notin ts THEN IdleRun ELSE rs[g]]

\* faulty variant: the pending timer is left running
clearTimeoutSkipped(ts, ref) == ts

\* faulty variant: a handle other than the remembered one is cleared
clearTimeoutWrongHandle(ts, ref) == ts \ {ref - 1}

\* window.clearTimeout(timeoutRef.current)
clearTimeout(ts, ref) == ts \ {ref}

\* lastOp records what the last step let the outside observe besides the
\* state: the alert of a failed decryption, an uncaught exception, or the
\* resumption of a superseded run; every other step leaves Quiet
Notable == {"alert", "threw", "stale"}
Quiet == [op |-> "other", res |-> "ok"]
Op(name, res, arg) == IF res \in Notable THEN [op |-> name, res |-> res] ELSE Quiet

(***************************************************************************)
(* Initial state: the component right after mounting.                      *)
(***************************************************************************)
InitPage(pg) ==
    /\ page = pg
    /\ mounted = TRUE
    /\ inputText = <<>>
    /\ currentStep = NullStep
    /\ isPlaying = FALSE
    /\ completedSteps = <<>>
    /\ finalEncryptedText = EmptyStr
    /\ encryptionNonce = EmptyStr
    /\ showXorAnimation = FALSE
    /\ showNonceCombine = FALSE
    /\ showKeyDerivation = FALSE
    /\ encryptedInput = EmptyStr
    /\ nonceInput = EmptyStr
    /\ decryptedText = <<>>
    /\ alicePrivateKey = 0
    /\ bobPublicKey = 0
    /\ runIdRef = 0
    /\ timeoutRef = 0
    /\ timers = {}
    /\ runs = [g \in RunIds |-> IdleRun]
    /\ manualMode = FALSE
    /\ manualPrepared = FALSE
    /\ manualCharIndex = 0
    /\ manualStageIndex = 0
    /\ manualPreviews = <<>>
    /\ manualBase = "none"
    /\ lastOp = Op("mount", "ok", 0)
    /\ myKeys = NullKeys
    /\ toolTheirPublicKey = EmptyStr
    /\ toolPlaintext = <<>>
    /\ toolCiphertext = EmptyStr
    /\ toolNonce = EmptyStr
    /\ toolSharedSecret = 0
    /\ toast = "none"

MaxEffects == 3    \* cap on the runs of the effect of an XOR component
EffectIds == 1..MaxEffects

NoInputs == [plaintextByte |-> 0, keystreamByte |-> 0, speed |-> 0]
IdleEffect == [pc |-> "idle"]

\* neither XOR component is rendered
NoComponents ==
    /\ enhInputs = NoInputs
    /\ currentBitIndex = -1
    /\ isComplete = FALSE
    /\ animations = [a \in EffectIds |-> IdleEffect]
    /\ enhEffects = 0
    /\ xorMounted = FALSE
    /\ xorInputs = NoInputs
    /\ currentBit = -1
    /\ completed = FALSE
    /\ effects = [e \in EffectIds |-> IdleEffect]
    /\ xorEffects = 0

\* no helper has been called
NoArgs == [a |-> <<>>, b |-> <<>>, myPrivateKey |-> EmptyStr, theirPublicKey |-> EmptyStr,
           speed |-> "medium"]
NoResult == [fn |-> "none"]
NoCall == fnArgs = NoArgs /\ fnResult = NoResult

Init == InitPage("Index") /\ NoCall /\ NoComponents

(***************************************************************************)
(* Helpers shared by the handlers.                                         *)
(***************************************************************************)
\* setShowXorAnimation(stage === "xor-operation"); setShowNonceCombine(stage === "nonce-combine")
ShowStageFlags(stage) ==
    /\ showXorAnimation' = (stage = "xor-operation")
    /\ showNonceCombine' = (page = "Index" /\ stage = "nonce-combine")

HideStageFlags ==
    /\ showXorAnimation' = FALSE
    /\ showNonceCombine' = FALSE

\* await wait(ms) issued by run g: a new timer, remembered in timeoutRef
Wait(g, newRun) ==
    /\ timers' = (timers \ {g}) \cup {g}
    /\ timeoutRef' = g
    /\ runs' = Reap([runs EXCEPT ![g] = newRun], (timers \ {g}) \cup {g})

\* the run returns: no timer of its own is left
Return(g, kind) ==
    /\ timers' = timers \ {g}
    /\ timeoutRef' = timeoutRef
    /\ runs' = Reap([runs EXCEPT ![g] = IdleRun], timers \ {g})

\* faulty variant: the early return forgets the isPlaying test
EncryptionRejectedOnEmptyOnly == inputText = <<>>

\* the early return of visualizeEncryption
EncryptionRejected == inputText = <<>> \/ isPlaying

\* faulty variant: the early return forgets the nonce field
DecryptionRejectedNonceUnchecked == ~Truthy(encryptedInput) \/ isPlaying

\* the early return of visualizeDecryption
DecryptionRejected == ~Truthy(encryptedInput) \/ ~Truthy(nonceInput) \/ isPlaying

CharCipher(char, secret, n) == encryptMessage(<<char>>, secret, n).ciphertext

(***************************************************************************)
(* Manual preparation.                                                     *)
(***************************************************************************)
prepareManualEncryption(a, b, n, ns) ==
    LET aliceKeys == generateKeyPair(a)
        bobKeys == generateKeyPair(b)
        sharedSecret == deriveSharedSecret(aliceKeys.privateKey, bobKeys.publicKey)
        full == encryptMessage(inputText, sharedSecret, n)
        previews == [i \in 1..Len(inputText) |->
                        StepRecord(i - 1, inputText[i], "original", "Prepared", sharedSecret,
                                   CharCipher(inputText[i], sharedSecret, ns[i]))]
    IN  /\ alicePrivateKey' = aliceKeys.privateKey
        /\ bobPublicKey' = bobKeys.publicKey
        /\ showKeyDerivation' = (page = "Index")
        /\ encryptionNonce' = full.nonce
        /\ finalEncryptedText' = full.ciphertext
        /\ manualPreviews' = previews
        /\ manualPrepared' = TRUE
        /\ manualCharIndex' = 0
        /\ manualStageIndex' = 0
        /\ manualBase' = "encrypt"
        /\ currentStep' = WithStage(previews[1], stagesOrder[1], "Original Character")
        /\ UNCHANGED <<page, mounted, inputText, isPlaying, completedSteps, showXorAnimation,
                       showNonceCombine, encryptedInput, nonceInput, decryptedText,
                       runIdRef, timeoutRef, timers, runs, manualMode>>

\* the keys generateKeyPair can return when the decryption finds none stored:
\* a key drawn at random does not open an envelope that exists already
FreshKeys ==
    {k \in Keys : ~DecryptOk(encryptedInput, nonceInput,
                             deriveSharedSecret(generateKeyPair(k).privateKey,
                                                generateKeyPair(k).publicKey))}

\* the draws of the two generateKeyPair calls of a decryption; they are made
\* only when no key material is stored
DecryptionDraws ==
    IF alicePrivateKey # 0 /\ bobPublicKey # 0 THEN Keys ELSE FreshKeys

\* page Virtualization only
prepareManualDecryption(a, b, ns) ==
    LET stored == alicePrivateKey # 0 /\ bobPublicKey # 0
        sharedSecret == IF stored THEN deriveSharedSecret(alicePrivateKey, bobPublicKey)
                        ELSE deriveSharedSecret(generateKeyPair(a).privateKey,
                                                generateKeyPair(b).publicKey)
        ok == DecryptOk(encryptedInput, nonceInput, sharedSecret)
        fullDecryptedText == decryptMessage(encryptedInput, nonceInput, sharedSecret)
        previews == [i \in 1..Len(fullDecryptedText) |->
                        StepRecord(i - 1, fullDecryptedText[i], "encrypted", "Prepared",
                                   sharedSecret,
                                   CharCipher(fullDecryptedText[i], sharedSecret, ns[i]))]
    IN  /\ alicePrivateKey' = IF stored THEN alicePrivateKey ELSE generateKeyPair(a).privateKey
        /\ bobPublicKey' = IF stored THEN bobPublicKey ELSE generateKeyPair(b).publicKey
        /\ IF ok /\ fullDecryptedText # <<>>
           THEN /\ manualPreviews' = previews
                /\ manualPrepared' = TRUE
                /\ manualCharIndex' = 0
                /\ manualStageIndex' = 0
                /\ manualBase' = "decrypt"
                /\ currentStep' = WithStage(previews[1], "encrypted", "Encrypted Value")
                /\ lastOp' = Op("visualizeDecryption", "prepared", 0)
           ELSE /\ UNCHANGED <<manualPreviews, manualPrepared, manualCharIndex,
                               manualStageIndex, manualBase, currentStep>>
                /\ lastOp' = Op("visualizeDecryption", "threw", 0)
        /\ UNCHANGED <<page, mounted, inputText, isPlaying, completedSteps,
                       finalEncryptedText, encryptionNonce, showXorAnimation,
                       showNonceCombine, showKeyDerivation, encryptedInput, nonceInput,
                       decryptedText, runIdRef, timeoutRef, timers, runs, manualMode>>

(***************************************************************************)
(* Auto mode: the synchronous head of a run, up to its first await.        *)
(***************************************************************************)
StartEncryptionRun(a, b, n, n1) ==
    LET g == runIdRef + 1
        aliceKeys == generateKeyPair(a)
        bobKeys == generateKeyPair(b)
        sharedSecret == deriveSharedSecret(aliceKeys.privateKey, bobKeys.publicKey)
        full == encryptMessage(inputText, sharedSecret, n)
        cipher == CharCipher(inputText[1], sharedSecret, n1)
        st == EncStages[1]
    IN  /\ runIdRef' = g
        /\ isPlaying' = TRUE
        /\ completedSteps' = <<>>
        /\ finalEncryptedText' = EmptyStr
        /\ showKeyDerivation' = (page = "Index")
        /\ alicePrivateKey' = aliceKeys.privateKey
        /\ bobPublicKey' = bobKeys.publicKey
        /\ encryptionNonce' = full.nonce
        /\ currentStep' = StepRecord(0, inputText[1], st.stage, st.stageLabel, sharedSecret, cipher)
        /\ ShowStageFlags(st.stage)
        /\ Wait(g, [pc |-> "stage", kind |-> "enc", text |-> inputText, i |-> 1, s |-> 1,
                    secret |-> sharedSecret, full |-> full.ciphertext, cipher |-> cipher])
        /\ UNCHANGED <<page, mounted, inputText, encryptedInput, nonceInput, decryptedText,
                       manualMode, manualPrepared, manualCharIndex, manualStageIndex,
                       manualPreviews, manualBase>>

visualizeEncryption ==
    /\ mounted
    /\ UNCHANGED <<toolVars, fnVars, compVars>>
    /\ \/ /\ EncryptionRejected
          /\ lastOp' = Op("visualizeEncryption", "rejected", 0)
          /\ UNCHANGED progVars
       \/ /\ ~EncryptionRejected
          /\ manualMode
          /\ \E a \in Keys : \E b \in BobDraws(a), n \in Nonces, ns \in [1..Len(inputText) -> Nonces] :
                prepareManualEncryption(a, b, n, ns)
          /\ lastOp' = Op("visualizeEncryption", "prepared", 0)
       \/ /\ ~EncryptionRejected
          /\ ~manualMode
          /\ runIdRef < MaxRunId
          /\ \E a \in Keys : \E b \in BobDraws(a), n \in Nonces, n1 \in Nonces :
                StartEncryptionRun(a, b, n, n1)
          /\ lastOp' = Op("visualizeEncryption", "started", runIdRef + 1)

StartDecryptionRun(a, b, n1) ==
    LET g == runIdRef + 1
        stored == alicePrivateKey # 0 /\ bobPublicKey # 0
        sharedSecret == IF stored THEN deriveSharedSecret(alicePrivateKey, bobPublicKey)
                        ELSE deriveSharedSecret(generateKeyPair(a).privateKey,
                                                generateKeyPair(b).publicKey)
        ok == DecryptOk(encryptedInput, nonceInput, sharedSecret)
        fullDecryptedText == decryptMessage(encryptedInput, nonceInput, sharedSecret)
        st == DecStages[1]
    IN  /\ runIdRef' = g
        /\ completedSteps' = <<>>
        /\ IF ~ok
           THEN \* decryptMessage throws: catch alerts, finally clears isPlaying
                /\ isPlaying' = FALSE
                /\ currentStep' = NullStep
                /\ decryptedText' = <<>>
                /\ HideStageFlags
                /\ Return(g, "dec")
                /\ lastOp' = Op("visualizeDecryption", "alert", g)
           ELSE IF fullDecryptedText = <<>>
           THEN /\ isPlaying' = FALSE
                /\ currentStep' = NullStep
                /\ decryptedText' = fullDecryptedText
                /\ HideStageFlags
                /\ Return(g, "dec")
                /\ lastOp' = Op("visualizeDecryption", "finished", g)
           ELSE LET cipher == CharCipher(fullDecryptedText[1], sharedSecret, n1)
                IN  /\ isPlaying' = TRUE
                    /\ decryptedText' = <<>>
                    /\ currentStep' = StepRecord(0, fullDecryptedText[1], st.stage,
                                                 st.stageLabel, sharedSecret, cipher)
                    /\ ShowStageFlags(st.stage)
                    /\ Wait(g, [pc |-> "stage", kind |-> "dec", text |-> fullDecryptedText,
                                i |-> 1, s |-> 1, secret |-> sharedSecret,
                                full |-> fullDecryptedText, cipher |-> cipher])
                    /\ lastOp' = Op("visualizeDecryption", "started", g)
        /\ UNCHANGED <<page, mounted, inputText, finalEncryptedText, encryptionNonce,
                       showKeyDerivation, encryptedInput, nonceInput, alicePrivateKey,
                       bobPublicKey, manualMode, manualPrepared, manualCharIndex,
                       manualStageIndex, manualPreviews, manualBase>>

visualizeDecryption ==
    /\ mounted
    /\ UNCHANGED <<toolVars, fnVars, compVars>>
    /\ \/ /\ DecryptionRejected
          /\ lastOp' = Op("visualizeDecryption", "rejected", 0)
          /\ UNCHANGED progVars
       \/ /\ ~DecryptionRejected
          /\ page = "Virtualization" /\ manualMode
          /\ \E a \in DecryptionDraws : \E b \in BobDraws(a), ns \in [1..MaxLen -> Nonces] :
                prepareManualDecryption(a, b, ns)
       \/ /\ ~DecryptionRejected
          /\ ~(page = "Virtualization" /\ manualMode)
          /\ runIdRef < MaxRunId
          /\ \E a \in DecryptionDraws : \E b \in BobDraws(a), n1 \in Nonces : StartDecryptionRun(a, b, n1)

(***************************************************************************)
(* Auto mode: one resumption of run g, from the timer that ends its await  *)
(* up to the next await or to the return.                                  *)
(***************************************************************************)
\* faulty variant: the test is inverted
SupersededInverted(g) == runIdRef = g

\* runIdRef.current !== myRunId
Superseded(g) == runIdRef # g

\* faulty variant: the record carries the one-based position of the character
CompletedRecordOneBased(r) ==
    StepRecord(r.i, r.text[r.i], IF r.kind = "enc" THEN "encrypted" ELSE "original",
               "Completed", r.secret, r.cipher)

\* the record appended to completedSteps after the last stage of a character
CompletedRecord(r) ==
    StepRecord(r.i - 1, r.text[r.i], IF r.kind = "enc" THEN "encrypted" ELSE "original",
               "Completed", r.secret, r.cipher)

Resume(g) ==
    LET r == runs[g]
        stages == RunStages(r.kind)
    IN
    /\ g \in timers
    /\ r.pc \in Waiting
    /\ UNCHANGED <<toolVars, fnVars, compVars>>
    /\ IF Superseded(g)
       THEN \* every check breaks; only the trailing setIsPlaying(false) runs
            /\ isPlaying' = FALSE
            /\ Return(g, r.kind)
            /\ lastOp' = Op("resume", "stale", g)
            /\ UNCHANGED <<currentStep, completedSteps, finalEncryptedText, decryptedText,
                           showXorAnimation, showNonceCombine>>
       ELSE IF r.pc = "stage" /\ r.s < Len(stages)
       THEN \* next stage of the same character
            LET st == stages[r.s + 1]
            IN  /\ currentStep' = StepRecord(r.i - 1, r.text[r.i], st.stage, st.stageLabel,
                                             r.secret, r.cipher)
                /\ ShowStageFlags(st.stage)
                /\ Wait(g, [r EXCEPT !.s = r.s + 1])
                /\ lastOp' = Op("resume", "stage", g)
                /\ UNCHANGED <<isPlaying, completedSteps, finalEncryptedText, decryptedText>>
       ELSE IF r.pc = "stage"
       THEN \* the stage loop is over: the character is completed
            /\ completedSteps' = Append(completedSteps, CompletedRecord(r))
            /\ currentStep' = NullStep
            /\ HideStageFlags
            /\ Wait(g, [r EXCEPT !.pc = "complete"])
            /\ lastOp' = Op("resume", "completed", g)
            /\ UNCHANGED <<isPlaying, finalEncryptedText, decryptedText>>
       ELSE IF r.i < Len(r.text)
       THEN \* next character, first stage
            \E n \in Nonces :
                LET st == stages[1]
                    char == r.text[r.i + 1]
                    cipher == CharCipher(char, r.secret, n)
                IN  /\ currentStep' = StepRecord(r.i, char, st.stage, st.stageLabel,
                                                 r.secret, cipher)
                    /\ ShowStageFlags(st.stage)
                    /\ Wait(g, [r EXCEPT !.pc = "stage", !.i = r.i + 1, !.s = 1,
                                         !.cipher = cipher])
                    /\ lastOp' = Op("resume", "stage", g)
                    /\ UNCHANGED <<isPlaying, completedSteps, finalEncryptedText,
                                   decryptedText>>
       ELSE \* the character loop is over: publish the result
            /\ finalEncryptedText' = IF r.kind = "enc" THEN r.full ELSE finalEncryptedText
            /\ decryptedText' = IF r.kind = "dec" THEN r.full ELSE decryptedText
            /\ isPlaying' = FALSE
            /\ Return(g, r.kind)
            /\ lastOp' = Op("resume", "finished", g)
            /\ UNCHANGED <<currentStep, completedSteps, showXorAnimation, showNonceCombine>>
    /\ UNCHANGED <<page, mounted, inputText, encryptionNonce, showKeyDerivation,
                   encryptedInput, nonceInput, alicePrivateKey, bobPublicKey, runIdRef,
                   manualMode, manualPrepared, manualCharIndex, manualStageIndex,
                   manualPreviews, manualBase>>

TimerFires == \E g \in RunIds : Resume(g)

(***************************************************************************)
(* Stop, reset, unmount.                                                   *)
(***************************************************************************)
stopVisualization ==
    /\ mounted
    /\ UNCHANGED <<toolVars, fnVars, compVars>>
    /\ isPlaying                      \* the Stop button replaces the start button
    /\ runIdRef < MaxRunId
    /\ runIdRef' = runIdRef + 1
    /\ isPlaying' = FALSE
    /\ timers' = clearTimeout(timers, timeoutRef)
    /\ runs' = Reap(runs, clearTimeout(timers, timeoutRef))
    /\ currentStep' = NullStep
    /\ HideStageFlags
    /\ lastOp' = Op("stopVisualization", "ok", 0)
    /\ UNCHANGED <<page, mounted, inputText, completedSteps, finalEncryptedText,
                   encryptionNonce, showKeyDerivation, encryptedInput, nonceInput,
                   decryptedText, alicePrivateKey, bobPublicKey, timeoutRef, manualMode,
                   manualPrepared, manualCharIndex, manualStageIndex, manualPreviews,
                   manualBase>>

\* faulty variant: the prepared flag survives the reset
ClearManualKeepsPrepared ==
    /\ manualPrepared' = manualPrepared
    /\ manualPreviews' = <<>>
    /\ manualCharIndex' = 0
    /\ manualStageIndex' = 0

\* faulty variant: the position survives the reset
ClearManualKeepsPosition ==
    /\ manualPrepared' = FALSE
    /\ manualPreviews' = <<>>
    /\ UNCHANGED <<manualCharIndex, manualStageIndex>>

\* the four manual setters of reset (lines 1359-1362)
ClearManual ==
    /\ manualPrepared' = FALSE
    /\ manualPreviews' = <<>>
    /\ manualCharIndex' = 0
    /\ manualStageIndex' = 0

reset ==
    /\ mounted
    /\ UNCHANGED <<toolVars, fnVars, compVars>>
    /\ ~isPlaying                     \* the Reset button is disabled while playing
    /\ runIdRef < MaxRunId
    \* stopVisualization()
    /\ runIdRef' = runIdRef + 1
    /\ isPlaying' = FALSE
    /\ timers' = clearTimeout(timers, timeoutRef)
    /\ runs' = Reap(runs, clearTimeout(timers, timeoutRef))
    /\ HideStageFlags
    \* the setters of reset
    /\ inputText' = <<>>
    /\ currentStep' = NullStep
    /\ completedSteps' = <<>>
    /\ finalEncryptedText' = EmptyStr
    /\ encryptionNonce' = EmptyStr
    /\ encryptedInput' = EmptyStr
    /\ nonceInput' = EmptyStr
    /\ decryptedText' = <<>>
    /\ alicePrivateKey' = 0
    /\ bobPublicKey' = 0
    /\ ClearManual
    /\ manualMode' = FALSE
    /\ manualBase' = "none"
    /\ showKeyDerivation' = FALSE
    /\ lastOp' = Op("reset", "ok", 0)
    /\ UNCHANGED <<page, mounted, timeoutRef>>

Unmount ==
    /\ mounted
    /\ UNCHANGED <<toolVars, fnVars, compVars>>
    /\ runIdRef < MaxRunId
    /\ mounted' = FALSE
    /\ timers' = clearTimeout(timers, timeoutRef)
    /\ runs' = Reap(runs, clearTimeout(timers, timeoutRef))
    /\ runIdRef' = runIdRef + 1
    /\ lastOp' = Op("unmount", "ok", 0)
    \* the state of the component is discarded with it
    /\ inputText' = <<>>
    /\ currentStep' = NullStep
    /\ isPlaying' = FALSE
    /\ completedSteps' = <<>>
    /\ finalEncryptedText' = EmptyStr
    /\ encryptionNonce' = EmptyStr
    /\ HideStageFlags
    /\ showKeyDerivation' = FALSE
    /\ encryptedInput' = EmptyStr
    /\ nonceInput' = EmptyStr
    /\ decryptedText' = <<>>
    /\ alicePrivateKey' = 0
    /\ bobPublicKey' = 0
    /\ manualMode' = FALSE
    /\ manualPrepared' = FALSE
    /\ manualCharIndex' = 0
    /\ manualStageIndex' = 0
    /\ manualPreviews' = <<>>
    /\ manualBase' = "none"
    /\ UNCHANGED <<page, timeoutRef>>

(***************************************************************************)
(* Manual stepper.                                                         *)
(***************************************************************************)
\* the tab the manual buttons are clicked on (Virtualization passes it as `base`)
Bases == IF page = "Index" THEN {"encrypt"} ELSE {"encrypt", "decrypt"}

\* the keyboard handler (Index) or the rendered manual buttons (Virtualization)
ManualControlsLive ==
    /\ mounted
    /\ manualMode
    /\ manualPrepared
    /\ page = "Virtualization" => Len(manualPreviews) > 0

\* faulty variant: the preview is looked up at the index of the last render
updateCurrentStepFromStaleIndex(charIndex, stageIndex, base) ==
    IF Len(manualPreviews) = 0
    THEN UNCHANGED <<currentStep, showXorAnimation, showNonceCombine>>
    ELSE LET preview == manualPreviews[manualCharIndex + 1]
             stage == stagesOrder[stageIndex + 1]
         IN  /\ currentStep' = WithStage(preview, stage, stageLabelMap(stage, base))
             /\ ShowStageFlags(stage)

updateCurrentStepFromManual(charIndex, stageIndex, base) ==
    IF Len(manualPreviews) = 0
    THEN UNCHANGED <<currentStep, showXorAnimation, showNonceCombine>>
    ELSE LET preview == manualPreviews[charIndex + 1]
             stage == stagesOrder[stageIndex + 1]
         IN  /\ currentStep' = WithStage(preview, stage, stageLabelMap(stage, base))
             /\ ShowStageFlags(stage)

HasCharIndex(steps, ci) == \E j \in 1..Len(steps) : steps[j].charIndex = ci

\* faulty variant: the new record is put in front
AddCompletedNewestFirst(prev, preview) ==
    IF HasCharIndex(prev, preview.charIndex) THEN prev
    ELSE <<WithStage(preview, "encrypted", "Completed")>> \o prev

\* the functional update of completedSteps in manualStepForward
AddCompleted(prev, preview) ==
    IF HasCharIndex(prev, preview.charIndex) THEN prev
    ELSE Append(prev, WithStage(preview, "encrypted", "Completed"))

ManualFrame ==
    UNCHANGED <<toolVars, fnVars, compVars, page, mounted, inputText, isPlaying, finalEncryptedText, encryptionNonce,
                showKeyDerivation, encryptedInput, nonceInput, decryptedText,
                alicePrivateKey, bobPublicKey, runIdRef, timeoutRef, timers, runs,
                manualMode, manualPrepared, manualPreviews, manualBase>>

\* faulty variant: the early return blanks the displayed step
ManualNoopBlanksStep ==
    /\ currentStep' = NullStep
    /\ UNCHANGED <<completedSteps, showXorAnimation, showNonceCombine,
                   manualCharIndex, manualStageIndex>>

ManualNoop == UNCHANGED <<currentStep, completedSteps, showXorAnimation, showNonceCombine,
                          manualCharIndex, manualStageIndex>>

\* faulty variant: the next character is entered at its second stage
ForwardTargetSkipsFirst(c, sg) ==
    IF sg < Len(stagesOrder) - 1 THEN <<c, sg + 1>> ELSE <<c + 1, 1>>

\* the position manualStepForward moves to (lines 1072-1076)
ForwardTarget(c, sg) ==
    IF sg < Len(stagesOrder) - 1 THEN <<c, sg + 1>> ELSE <<c + 1, 0>>

\* faulty variant: stepping back over a character boundary lands on the first stage
BackTargetFirstStage(c, sg) ==
    IF sg > 0 THEN <<c, sg - 1>> ELSE <<c - 1, 0>>

\* the position manualStepBack moves to (lines 1095-1099)
BackTarget(c, sg) ==
    IF sg > 0 THEN <<c, sg - 1>> ELSE <<c - 1, Len(stagesOrder) - 1>>

manualStepForward ==
    /\ ManualControlsLive
    /\ \E base \in Bases :
        LET atEnd == /\ manualStageIndex >= Len(stagesOrder) - 1
                     /\ manualCharIndex >= Len(manualPreviews) - 1
            cIdx == ForwardTarget(manualCharIndex, manualStageIndex)[1]
            sIdx == ForwardTarget(manualCharIndex, manualStageIndex)[2]
        IN  IF ~manualPrepared \/ Len(manualPreviews) = 0 \/ atEnd
            THEN /\ ManualNoop
                 /\ lastOp' = Op("manualStepForward", "noop", 0)
            ELSE /\ manualStageIndex' = sIdx
                 /\ manualCharIndex' = cIdx
                 /\ updateCurrentStepFromManual(cIdx, sIdx, base)
                 /\ completedSteps' =
                        IF stagesOrder[sIdx + 1] = "encrypted"
                        THEN AddCompleted(completedSteps, manualPreviews[cIdx + 1])
                        ELSE completedSteps
                 /\ lastOp' = Op("manualStepForward", "moved", 0)
    /\ ManualFrame

manualStepBack ==
    /\ ManualControlsLive
    /\ \E base \in Bases :
        LET atStart == manualStageIndex <= 0 /\ manualCharIndex <= 0
            cIdx == BackTarget(manualCharIndex, manualStageIndex)[1]
            sIdx == BackTarget(manualCharIndex, manualStageIndex)[2]
        IN  IF ~manualPrepared \/ Len(manualPreviews) = 0 \/ atStart
            THEN /\ ManualNoop
                 /\ lastOp' = Op("manualStepBack", "noop", 0)
            ELSE /\ manualStageIndex' = sIdx
                 /\ manualCharIndex' = cIdx
                 /\ updateCurrentStepFromManual(cIdx, sIdx, base)
                 /\ UNCHANGED completedSteps
                 /\ lastOp' = Op("manualStepBack", "moved", 0)
    /\ ManualFrame

\* ArrowUp / ArrowDown (Index) or the Prev Char / Next Char buttons, which
\* Virtualization disables at the ends
GotoTargets ==
    {k \in {manualCharIndex - 1, manualCharIndex + 1} :
        page = "Virtualization" => (k >= 0 /\ k <= Len(manualPreviews) - 1)}

\* faulty variant: the lower bound of the range test is off by one
GotoRejectedAtZero(newIndex) ==
    ~manualPrepared \/ newIndex <= 0 \/ newIndex >= Len(manualPreviews)

\* the early return of manualGotoChar
GotoRejected(newIndex) ==
    ~manualPrepared \/ newIndex < 0 \/ newIndex >= Len(manualPreviews)

\* manualGotoChar(newIndex)
GotoChar(newIndex) ==
    /\ ManualControlsLive
    /\ \E base \in Bases :
        IF GotoRejected(newIndex)
        THEN /\ ManualNoop
             /\ lastOp' = Op("manualGotoChar", "noop", newIndex)
        ELSE /\ manualCharIndex' = newIndex
             /\ manualStageIndex' = 0
             /\ updateCurrentStepFromManual(newIndex, 0, base)
             /\ UNCHANGED completedSteps
             /\ lastOp' = Op("manualGotoChar", "moved", newIndex)
    /\ ManualFrame

manualGotoChar == \E newIndex \in GotoTargets : GotoChar(newIndex)

(***************************************************************************)
(* Form controls.                                                          *)
(***************************************************************************)
InputFrame ==
    UNCHANGED <<toolVars, fnVars, compVars, page, mounted, currentStep, isPlaying, completedSteps, finalEncryptedText,
                encryptionNonce, showXorAnimation, showNonceCombine, showKeyDerivation,
                decryptedText, alicePrivateKey, bobPublicKey, runIdRef, timeoutRef, timers,
                runs, manualPrepared, manualCharIndex, manualStageIndex, manualPreviews,
                manualBase>>

setInputText ==
    /\ mounted
    /\ \E t \in Texts \ {inputText} : inputText' = t
    /\ lastOp' = Op("input", "ok", 0)
    /\ UNCHANGED <<encryptedInput, nonceInput, manualMode>>
    /\ InputFrame

setManualMode ==
    /\ mounted
    /\ ~isPlaying                     \* both mode buttons are disabled while playing
    /\ manualMode' = ~manualMode
    /\ lastOp' = Op("input", "ok", 0)
    /\ UNCHANGED <<inputText, encryptedInput, nonceInput>>
    /\ InputFrame

\* typing into (or clearing) the ciphertext field of the decryption tab
setEncryptedInput ==
    /\ mounted
    /\ \E v \in {EmptyStr, Garbage} \ {encryptedInput} : encryptedInput' = v
    /\ lastOp' = Op("input", "ok", 0)
    /\ UNCHANGED <<inputText, nonceInput, manualMode>>
    /\ InputFrame

\* the "Test Decryption" button of the final package
onTestDecryption ==
    /\ mounted
    /\ Truthy(finalEncryptedText)
    /\ encryptedInput' = finalEncryptedText
    /\ nonceInput' = encryptionNonce
    /\ lastOp' = Op("input", "ok", 0)
    /\ UNCHANGED <<inputText, manualMode>>
    /\ InputFrame

(***************************************************************************)
(* Specifications.                                                         *)
(***************************************************************************)
Next ==
    \/ setInputText
    \/ setManualMode
    \/ setEncryptedInput
    \/ onTestDecryption
    \/ visualizeEncryption
    \/ visualizeDecryption
    \/ TimerFires
    \/ stopVisualization
    \/ reset
    \/ Unmount
    \/ manualStepForward
    \/ manualStepBack
    \/ manualGotoChar

Spec == Init /\ [][Next]_vars

\* some run has its window.setTimeout callback pending: the condition under
\* which TimerFires can take a step, and every such step changes runs
TimerDue == \E g \in RunIds : g \in timers /\ runs[g].pc \in Waiting

\* the browser eventually runs a pending window.setTimeout callback: weak
\* fairness of TimerFires, with its enabling condition written as TimerDue
TimerFairness == []<>(~TimerDue) \/ []<><<TimerFires>>_vars

SpecLive == Init /\ [][Next]_vars /\ TimerFairness

\* the page component of src/unnamed/part_002
(***************************************************************************)
(* The decryption form filled by hand with an envelope that was saved from *)
(* an encryption run.                                                      *)
(***************************************************************************)
\* the envelope an encryption of text under the key pair drawn as k produces
Envelope(text, k, n) ==
    encryptMessage(text, deriveSharedSecret(generateKeyPair(k).privateKey,
                                            generateKeyPair(k).publicKey), n)

\* pasting a saved ciphertext into the ciphertext field
pasteEncryptedInput ==
    /\ mounted
    /\ \E text \in Texts \ {<<>>}, k \in Keys, n \in Nonces :
          /\ encryptedInput' = Envelope(text, k, n).ciphertext
          /\ encryptedInput' # encryptedInput
    /\ lastOp' = Op("input", "ok", 0)
    /\ UNCHANGED <<inputText, nonceInput, manualMode>>
    /\ InputFrame

\* typing into (or clearing) the nonce field
setNonceInput ==
    /\ mounted
    /\ \E v \in {EmptyStr} \cup {encodeBase64(<<n>>) : n \in Nonces} :
          /\ nonceInput' = v
          /\ nonceInput' # nonceInput
    /\ lastOp' = Op("input", "ok", 0)
    /\ UNCHANGED <<inputText, encryptedInput, manualMode>>
    /\ InputFrame

\* the page with the decryption form filled by hand; the manual stepper,
\* which touches neither the form nor the keys, is left idle
NextEnvelope ==
    \/ setInputText
    \/ setManualMode
    \/ setEncryptedInput
    \/ pasteEncryptedInput
    \/ setNonceInput
    \/ onTestDecryption
    \/ visualizeEncryption
    \/ visualizeDecryption
    \/ TimerFires
    \/ stopVisualization
    \/ reset
    \/ Unmount

SpecEnvelope == Init /\ [][NextEnvelope]_vars

InitVirtualization == InitPage("Virtualization") /\ NoCall /\ NoComponents

SpecVirtualization == InitVirtualization /\ [][Next]_vars

TypeOK ==
    /\ isPlaying \in BOOLEAN
    /\ runIdRef \in 0..MaxRunId
    /\ timers \subseteq RunIds

(***************************************************************************)
(* The page component Tool (src/unnamed/part_000) and the adapter calls it *)
(* makes.  Key pair k stands for the base64 texts of its two 32-byte keys. *)
(***************************************************************************)
KeyLen == 32

\* the base64 text of public key k, as the other party would send it
KeyString(k) == encodeBase64([i \in 1..KeyLen |-> k])
KeyOf(str) == At(decodeBase64(str), 1)

\* faulty variant: the decoding error is not caught
isValidKeyUncaught(key) ==
    IF ~Decodable(key) THEN [threw |-> TRUE, value |-> FALSE]
    ELSE [threw |-> FALSE, value |-> Len(decodeBase64(key)) = KeyLen]

\* isValidKey: what it returns and whether an exception leaves it
isValidKey(key) ==
    IF ~Decodable(key) THEN [threw |-> FALSE, value |-> FALSE]      \* catch { return false }
    ELSE [threw |-> FALSE, value |-> Len(decodeBase64(key)) = KeyLen]

\* String.prototype.trim() leaves nothing
IsSpace(c) == c \in {9, 10, 11, 12, 13, 32, 160}
Blank(s) == \A i \in 1..Len(s) : IsSpace(s[i])

\* what the user types into the form fields
ToolTexts == {<<>>, <<32>>, SubSeq(Master, 1, MaxLen), <<55357>>, <<55357, 56832>>}
KeyInputs == {EmptyStr, Garbage, encodeBase64(<<1>>)} \cup {KeyString(k) : k \in Keys}
FlipLast(str) ==
    [str EXCEPT !.bytes = [str.bytes EXCEPT ![Len(str.bytes)] = Xor(@, 1)]]
DropLast(str) == [str EXCEPT !.bytes = SubSeq(str.bytes, 1, Len(str.bytes) - 1)]
CiphertextInputs ==
    {EmptyStr, Garbage}
    \cup (IF toolCiphertext.kind = "b64" /\ Len(toolCiphertext.bytes) > TagLen
          THEN {FlipLast(toolCiphertext), DropLast(toolCiphertext)} ELSE {})
NonceInputs ==
    {EmptyStr, Garbage} \cup {encodeBase64(<<n>>) : n \in 1..(NumNonces + 1)}
       \cup {encodeBase64(<<n, n>>) : n \in Nonces}

ToolFrame == UNCHANGED <<progVars, fnVars, compVars>>

\* faulty variant: only the public key is checked
DeriveOkPublicOnly(myPrivateKey, theirPublicKey) ==
    /\ Decodable(myPrivateKey)
    /\ Decodable(theirPublicKey)
    /\ Len(decodeBase64(theirPublicKey)) = KeyLen

\* deriveSharedSecret throws exactly when DeriveOk is false: decodeBase64
\* rejects text that is not base64 and nacl.box.before rejects a public or
\* secret key that is not 32 bytes long
DeriveOk(myPrivateKey, theirPublicKey) ==
    /\ Decodable(myPrivateKey)
    /\ Decodable(theirPublicKey)
    /\ Len(decodeBase64(theirPublicKey)) = KeyLen
    /\ Len(decodeBase64(myPrivateKey)) = KeyLen

handleGenerateKeys ==
    /\ \E k \in Keys : myKeys' = generateKeyPair(k)
    /\ toolSharedSecret' = 0
    /\ toast' = "Keys Generated"
    /\ UNCHANGED <<toolTheirPublicKey, toolPlaintext, toolCiphertext, toolNonce, lastOp>>
    /\ ToolFrame

setTheirPublicKey ==
    /\ \E v \in KeyInputs \ {toolTheirPublicKey} : toolTheirPublicKey' = v
    /\ UNCHANGED <<myKeys, toolPlaintext, toolCiphertext, toolNonce, toolSharedSecret, toast,
                   lastOp>>
    /\ ToolFrame

handleDeriveSecret ==
    /\ myKeys # NullKeys                  \* the button is disabled without keys
    /\ LET valid == isValidKey(toolTheirPublicKey)
       IN  IF valid.threw
           THEN /\ lastOp' = Op("handleDeriveSecret", "threw", 0)
                /\ UNCHANGED <<toolSharedSecret, toast>>
           ELSE IF ~valid.value
           THEN /\ toast' = "Invalid public key"
                /\ UNCHANGED <<toolSharedSecret, lastOp>>
           ELSE IF ~DeriveOk(KeyString(myKeys.privateKey), toolTheirPublicKey)
           THEN \* deriveSharedSecret throws; the catch reports it
                /\ toast' = "Failed to derive shared secret"
                /\ UNCHANGED <<toolSharedSecret, lastOp>>
           ELSE /\ toolSharedSecret' =
                      deriveSharedSecret(myKeys.privateKey, KeyOf(toolTheirPublicKey))
                /\ toast' = "Shared Secret Derived"
                /\ UNCHANGED lastOp
    /\ UNCHANGED <<myKeys, toolTheirPublicKey, toolPlaintext, toolCiphertext, toolNonce>>
    /\ ToolFrame

setPlaintext ==
    /\ \E t \in ToolTexts \ {toolPlaintext} : toolPlaintext' = t
    /\ UNCHANGED <<myKeys, toolTheirPublicKey, toolCiphertext, toolNonce, toolSharedSecret,
                   toast, lastOp>>
    /\ ToolFrame

\* faulty variant: the missing secret is not noticed
SecretMissingIgnored == FALSE

\* !sharedSecret: the Encrypt and Decrypt buttons are disabled, and the
\* handlers return at once
SecretMissing == toolSharedSecret = 0

handleEncrypt ==
    /\ ~SecretMissing
    /\ IF Blank(toolPlaintext)
       THEN /\ toast' = "Enter text to encrypt"
            /\ UNCHANGED <<toolCiphertext, toolNonce>>
       ELSE \E n \in Nonces :
                LET encrypted == encryptMessage(toolPlaintext, toolSharedSecret, n)
                IN  /\ toolCiphertext' = encrypted.ciphertext
                    /\ toolNonce' = encrypted.nonce
                    /\ toast' = "Encrypted"
    /\ UNCHANGED <<myKeys, toolTheirPublicKey, toolPlaintext, toolSharedSecret, lastOp>>
    /\ ToolFrame

setCiphertext ==
    /\ \E v \in CiphertextInputs \ {toolCiphertext} : toolCiphertext' = v
    /\ UNCHANGED <<myKeys, toolTheirPublicKey, toolPlaintext, toolNonce, toolSharedSecret,
                   toast, lastOp>>
    /\ ToolFrame

setNonce ==
    /\ \E v \in NonceInputs \ {toolNonce} : toolNonce' = v
    /\ UNCHANGED <<myKeys, toolTheirPublicKey, toolPlaintext, toolCiphertext,
                   toolSharedSecret, toast, lastOp>>
    /\ ToolFrame

handleDecrypt ==
    /\ ~SecretMissing
    /\ IF ~Truthy(toolCiphertext) \/ ~Truthy(toolNonce)
       THEN /\ toast' = "Enter ciphertext and nonce"
            /\ UNCHANGED toolPlaintext
       ELSE IF DecryptOk(toolCiphertext, toolNonce, toolSharedSecret)
       THEN /\ toolPlaintext' = decryptMessage(toolCiphertext, toolNonce, toolSharedSecret)
            /\ toast' = "Decrypted"
       ELSE \* decryptMessage throws; the catch reports it
            /\ toast' = "Decryption failed"
            /\ UNCHANGED toolPlaintext
    /\ UNCHANGED <<myKeys, toolTheirPublicKey, toolCiphertext, toolNonce, toolSharedSecret,
                   lastOp>>
    /\ ToolFrame

NextTool ==
    \/ handleGenerateKeys
    \/ setTheirPublicKey
    \/ handleDeriveSecret
    \/ setPlaintext
    \/ handleEncrypt
    \/ setCiphertext
    \/ setNonce
    \/ handleDecrypt

InitTool == InitPage("Tool") /\ NoCall /\ NoComponents

SpecTool == InitTool /\ [][NextTool]_vars

(***************************************************************************)
(* The pure helpers called on their own: xorBytes, deriveSharedSecret and  *)
(* the pause wait() is given after a stage.  The arguments are fixed when  *)
(* the behaviour starts; each action is one call.                          *)
(***************************************************************************)
MaxBytes == 2      \* longest byte array handed to xorBytes

ByteSamples == {0, 90, 255}
ByteSeqs == UNION {[1..n -> ByteSamples] : n \in 0..MaxBytes}
Speeds == {"slow", "medium", "fast"}

speedSettings ==
    IF page = "Index"
    THEN [slow   |-> [step |-> 12000, xor |-> 12000, complete |-> 8000],
          medium |-> [step |-> 6000,  xor |-> 5000,  complete |-> 3500],
          fast   |-> [step |-> 3000,  xor |-> 2500,  complete |-> 1500]]
    ELSE [slow   |-> [step |-> 2500,  xor |-> 3000,  complete |-> 2500],
          medium |-> [step |-> 1200,  xor |-> 1200,  complete |-> 1200],
          fast   |-> [step |-> 600,   xor |-> 600,   complete |-> 450]]

\* the argument of the wait() that follows the display of a stage, or the
\* completion of a character
WaitTime(speed, stage) ==
    IF stage = "complete" THEN speedSettings[speed].complete
    ELSE IF stage = "xor-operation" THEN speedSettings[speed].xor
    ELSE speedSettings[speed].step

PauseStages == {stagesOrder[k] : k \in 1..Len(stagesOrder)} \cup {"complete"}

Returned(fn, value) == [fn |-> fn, threw |-> FALSE, value |-> value]
Threw(fn) == [fn |-> fn, threw |-> TRUE]

FnFrame == UNCHANGED <<progVars, toolVars, lastOp, fnArgs, compVars>>

CallXorBytes ==
    /\ fnResult' = Returned("xorBytes", xorBytes(fnArgs.a, fnArgs.b))
    /\ FnFrame

CallDeriveSharedSecret ==
    /\ fnResult' =
          IF DeriveOk(fnArgs.myPrivateKey, fnArgs.theirPublicKey)
          THEN Returned("deriveSharedSecret",
                        deriveSharedSecret(KeyOf(fnArgs.myPrivateKey),
                                           KeyOf(fnArgs.theirPublicKey)))
          ELSE Threw("deriveSharedSecret")
    /\ FnFrame

CallWait ==
    /\ \E stage \in PauseStages :
          fnResult' = [fn |-> "wait", stage |-> stage, threw |-> FALSE,
                       value |-> WaitTime(fnArgs.speed, stage)]
    /\ FnFrame

NextFunctions ==
    \/ CallXorBytes
    \/ CallDeriveSharedSecret
    \/ CallWait

InitFunctions ==
    /\ \E pg \in {"Index", "Virtualization"} : InitPage(pg)
    /\ fnArgs \in [a : ByteSeqs, b : ByteSeqs, myPrivateKey : KeyInputs,
                    theirPublicKey : KeyInputs, speed : Speeds]
    /\ fnResult = NoResult
    /\ NoComponents

SpecFunctions == InitFunctions /\ [][NextFunctions]_vars

(***************************************************************************)
(* The component EnhancedXorVisualization                                  *)
(* (src/components/EnhancedXorVisualization.tsx).  The effect resets the   *)
(* two state variables and calls animateBits, which awaits one timeout per *)
(* bit and a last one before it sets isComplete.  The effect returns no    *)
(* cleanup, so every invocation of animateBits runs to its end.            *)
(***************************************************************************)
NumBits == 8       \* bits the animation shows

EnhInputs == [plaintextByte : {72, 233}, keystreamByte : {90}, speed : {250, 500}]

EnhFrame == UNCHANGED <<progVars, lastOp, toolVars, fnVars, xorVars>>

\* animateBits() is called: the new invocation awaits its first timeout
StartAnimation(a) == [animations EXCEPT ![a] = [pc |-> "bit", i |-> 0]]

\* the body of the effect (lines 28-40)
EnhRunEffect ==
    /\ currentBitIndex' = -1
    /\ isComplete' = FALSE
    /\ enhEffects' = enhEffects + 1
    /\ animations' = StartAnimation(enhEffects + 1)

\* the parent renders the component with other bytes or another speed
EnhInputsChange ==
    /\ enhEffects \in 1..(MaxEffects - 1)
    /\ \E in \in EnhInputs \ {enhInputs} : enhInputs' = in
    /\ EnhRunEffect
    /\ EnhFrame

\* a timeout of invocation a of animateBits resolves
animateBitsResume(a) ==
    /\ animations[a].pc \in {"bit", "final"}
    /\ IF animations[a].pc = "bit"
       THEN /\ currentBitIndex' = animations[a].i
            /\ animations' = [animations EXCEPT ![a] =
                                 IF animations[a].i < NumBits - 1
                                 THEN [pc |-> "bit", i |-> animations[a].i + 1]
                                 ELSE [pc |-> "final", i |-> NumBits]]
            /\ UNCHANGED isComplete
       ELSE /\ isComplete' = TRUE
            /\ animations' = [animations EXCEPT ![a] = [pc |-> "done", i |-> NumBits]]
            /\ UNCHANGED currentBitIndex
    /\ UNCHANGED <<enhInputs, enhEffects>>
    /\ EnhFrame

EnhTimeoutResolves == \E a \in EffectIds : animateBitsResume(a)

NextEnhancedXor ==
    \/ EnhInputsChange
    \/ EnhTimeoutResolves

\* the component has been rendered and its effect has run once
InitEnhancedXor ==
    /\ InitPage("Index") /\ NoCall
    /\ enhInputs \in EnhInputs
    /\ currentBitIndex = -1
    /\ isComplete = FALSE
    /\ enhEffects = 1
    /\ animations = [a \in EffectIds |-> IF a = 1 THEN [pc |-> "bit", i |-> 0] ELSE IdleEffect]
    /\ xorMounted = FALSE /\ xorInputs = NoInputs /\ currentBit = -1 /\ completed = FALSE
    /\ effects = [e \in EffectIds |-> IdleEffect] /\ xorEffects = 0

SpecEnhancedXor == InitEnhancedXor /\ [][NextEnhancedXor]_vars

(***************************************************************************)
(* The component XorVisualization (src/components/XorVisualization.tsx).   *)
(* The effect resets the two state variables and sets a 100 ms timer whose *)
(* callback starts the interval; the cleanup of the effect clears that     *)
(* timer.  An effect is "timer" while its timer is pending, "interval"     *)
(* while its interval runs, "onComplete" while the timeout that calls      *)
(* onComplete is pending; it keeps the onComplete of its own render.       *)
(***************************************************************************)
XorInputs ==
    [plaintextByte : {72}, keystreamByte : {90}, speed : {60, 120},
     onComplete : {"none", "callback"}]

XorFrame == UNCHANGED <<progVars, lastOp, toolVars, fnVars, enhVars>>

\* the cleanup the effect returns (line 52): clearTimeout(timer).  The
\* function the timer callback returns (line 49) is never called.
XorCleanup(e) ==
    [effects EXCEPT ![e] = IF effects[e].pc = "timer" THEN [pc |-> "cleared"] ELSE @]

\* the body of the effect (lines 28-50), after the cleanup of the run before
XorRunEffect(inputs, cleaned) ==
    /\ currentBit' = -1
    /\ completed' = FALSE
    /\ xorEffects' = xorEffects + 1
    /\ effects' = [cleaned EXCEPT ![xorEffects + 1] =
                      [pc |-> "timer", bit |-> 0, onComplete |-> inputs.onComplete]]

\* the parent renders the component with other props
XorInputsChange ==
    /\ xorMounted
    /\ xorEffects \in 1..(MaxEffects - 1)
    /\ \E in \in XorInputs \ {xorInputs} :
          /\ xorInputs' = in
          /\ XorRunEffect(in, XorCleanup(xorEffects))
    /\ UNCHANGED xorMounted
    /\ XorFrame

\* the parent stops rendering the component
XorUnmount ==
    /\ xorMounted
    /\ xorMounted' = FALSE
    /\ effects' = XorCleanup(xorEffects)
    /\ UNCHANGED <<xorInputs, currentBit, completed, xorEffects>>
    /\ XorFrame

\* the 100 ms timer of effect e fires: setInterval
XorTimerFires(e) ==
    /\ effects[e].pc = "timer"
    /\ effects' = [effects EXCEPT ![e].pc = "interval"]
    /\ UNCHANGED <<xorMounted, xorInputs, currentBit, completed, xorEffects>>
    /\ XorFrame

\* the interval of effect e ticks; a state setter of a component that is
\* no longer rendered changes nothing, the sound is played all the same
XorIntervalTick(e) ==
    /\ effects[e].pc = "interval"
    /\ IF effects[e].bit < NumBits
       THEN /\ currentBit' = IF xorMounted THEN effects[e].bit ELSE currentBit
            /\ effects' = [effects EXCEPT ![e].bit = @ + 1]       \* playBitFlip, bit++
            /\ UNCHANGED completed
       ELSE /\ completed' = (xorMounted \/ completed)
            /\ effects' = [effects EXCEPT ![e].pc =
                              IF effects[e].onComplete # "none"
                              THEN "onComplete" ELSE "done"]
            /\ UNCHANGED currentBit
    /\ UNCHANGED <<xorMounted, xorInputs, xorEffects>>
    /\ XorFrame

\* setTimeout(onComplete, 300) of effect e fires
XorOnCompleteFires(e) ==
    /\ effects[e].pc = "onComplete"
    /\ effects' = [effects EXCEPT ![e].pc = "done"]
    /\ UNCHANGED <<xorMounted, xorInputs, currentBit, completed, xorEffects>>
    /\ XorFrame

NextXor ==
    \/ XorInputsChange
    \/ XorUnmount
    \/ \E e \in EffectIds : XorTimerFires(e)
    \/ \E e \in EffectIds : XorIntervalTick(e)
    \/ \E e \in EffectIds : XorOnCompleteFires(e)

\* the component has been rendered and its effect has run once
InitXor ==
    /\ InitPage("Virtualization") /\ NoCall
    /\ enhInputs = NoInputs /\ currentBitIndex = -1 /\ isComplete = FALSE
    /\ animations = [a \in EffectIds |-> IdleEffect] /\ enhEffects = 0
    /\ xorMounted = TRUE
    /\ xorInputs \in XorInputs
    /\ currentBit = -1
    /\ completed = FALSE
    /\ xorEffects = 1
    /\ effects = [e \in EffectIds |->
                    IF e = 1 THEN [pc |-> "timer", bit |-> 0,
                                   onComplete |-> xorInputs.onComplete]
                    ELSE IdleEffect]

SpecXor == InitXor /\ [][NextXor]_vars

(***************************************************************************)
(* Properties.                                                             *)
(***************************************************************************)
LiveRuns == {g \in RunIds : runs[g].pc \in Waiting}
LiveKind(kind) == \E g \in LiveRuns : runs[g].kind = kind
NumStages == Len(stagesOrder)

\* C1 (cancellation safety): a resumption of a run whose generation is no
\* longer the current one changes none of currentStep, completedSteps,
\* finalEncryptedText, decryptedText, isPlaying and the XOR / nonce flags;
\* and after every step no generation other than the current one has a
\* timer pending or a continuation waiting, so a step scheduled by a
\* superseded run has nothing left to write with.
C1_StaleRunWritesNothing ==
    [][/\ \A g \in RunIds : (Resume(g) /\ Superseded(g)) => UNCHANGED displayVars
       /\ \A g \in RunIds : runIdRef' # g => (g \notin timers' /\ runs'[g].pc \notin Waiting)]_vars

\* a run was stopped after its first character was completed: the timer it
\* had scheduled is gone and the counter has moved past its generation
C1_Witness ==
    /\ mounted
    /\ runIdRef = 2
    /\ timeoutRef = 1
    /\ timers = {}
    /\ LiveRuns = {}
    /\ ~isPlaying
    /\ Len(completedSteps) = 1
    /\ currentStep = NullStep
    /\ ~Truthy(finalEncryptedText)

\* C2 (single live run): while isPlaying, a call of visualizeEncryption or
\* visualizeDecryption changes no state, and never are two runs waiting on a
\* timer at once.
C2_StartRejectedWhilePlaying ==
    [][/\ (isPlaying /\ (visualizeEncryption \/ visualizeDecryption)) => UNCHANGED progVars
       /\ Cardinality({g \in RunIds : runs'[g].pc \in Waiting}) <= 1]_vars

\* a run is live and everything else a start needs is there (text, auto
\* mode, room in the counter), so only the isPlaying test rejects the request
C2_Witness ==
    /\ mounted
    /\ isPlaying
    /\ inputText # <<>>
    /\ ~manualMode
    /\ Truthy(encryptedInput) /\ Truthy(nonceInput)
    /\ runIdRef < MaxRunId
    /\ LiveRuns = {runIdRef}

\* C3 (as claimed): while isPlaying, the manual stepper operations change
\* neither currentStep nor completedSteps.
C3_ManualIdleWhilePlaying ==
    [][(isPlaying /\ (manualStepForward \/ manualStepBack \/ manualGotoChar))
          => UNCHANGED <<currentStep, completedSteps>>]_vars

\* the stage order the specification fixes for encryption
FixedOrder == <<"original", "numeric", "xor-operation", "nonce-combine", "encrypted">>
OrderIndex(stage) == CHOOSE k \in 1..Len(FixedOrder) : FixedOrder[k] = stage

\* C4 (encryption order): while an encryption run is live, every change of
\* the displayed step is the next stage of the fixed order for the same
\* character, or the first stage of the next character in input order once
\* the previous one was shown encrypted and recorded; nothing is skipped or
\* repeated.
C4_EncryptionStageOrder ==
    [][(LiveKind("enc")' /\ currentStep' # currentStep) =>
          IF currentStep' = NullStep
          THEN /\ currentStep.stage = "encrypted"
               /\ Len(completedSteps') = currentStep.charIndex + 1
          ELSE IF currentStep = NullStep \/ ~LiveKind("enc")
          THEN /\ currentStep'.stage = "original"
               /\ currentStep'.charIndex = Len(completedSteps')
          ELSE /\ currentStep'.charIndex = currentStep.charIndex
               /\ currentStep.stage # "encrypted"
               /\ currentStep'.stage = FixedOrder[OrderIndex(currentStep.stage) + 1]]_vars

\* the second character of an encryption run is shown at its last stage
C4_Witness ==
    /\ LiveKind("enc")
    /\ currentStep # NullStep
    /\ currentStep.charIndex = 1
    /\ currentStep.stage = "encrypted"
    /\ Len(completedSteps) = 1

\* C5 (as claimed, manual driver): in a manual decryption the record shown at
\* stage index 0 is the encrypted stage and the record shown at the last
\* stage index is the original stage.
C5_ManualDecryptionMirrored ==
    (/\ manualPrepared
     /\ manualBase = "decrypt"
     /\ ~isPlaying
     /\ currentStep # NullStep
     /\ currentStep = WithStage(manualPreviews[manualCharIndex + 1],
                                currentStep.stage, currentStep.stageLabel))
    => /\ manualStageIndex = 0 => currentStep.stage = "encrypted"
       /\ manualStageIndex = NumStages - 1 => currentStep.stage = "original"

\* positions of the two drivers, zero-based as in the code
AutoPos(r) == <<r.i - 1, r.s - 1>>
SuccPos(pos) == IF pos[2] < NumStages - 1 THEN <<pos[1], pos[2] + 1>> ELSE <<pos[1] + 1, 0>>
LexLess(p, q) == p[1] < q[1] \/ (p[1] = q[1] /\ p[2] < q[2])

\* C6 (stage monotonicity): a timer step of an auto run and a manual
\* step-forward either leave the driver's (charIndex, stageIndex) position
\* where it is or move it to the immediate lexicographic successor, an auto
\* run starts at (0, 0) and publishes only from the last stage of the last
\* character; so forward progress never decreases and visits every position
\* exactly once.
C6_StageMonotonicity ==
    [][/\ \A g \in RunIds :
            LET r == runs[g]
                r2 == runs'[g]
            IN  /\ (r.pc = "idle" /\ r2.pc \in Waiting) => AutoPos(r2) = <<0, 0>>
                /\ (Resume(g) /\ r2.pc = "stage") =>
                        /\ AutoPos(r2) = SuccPos(AutoPos(r))
                        /\ LexLess(AutoPos(r), AutoPos(r2))
                        /\ currentStep'.charIndex = AutoPos(r2)[1]
                        /\ currentStep'.stage = RunStages(r.kind)[AutoPos(r2)[2] + 1].stage
                /\ (Resume(g) /\ r2.pc = "complete") =>
                        /\ AutoPos(r2) = AutoPos(r)
                        /\ AutoPos(r)[2] = NumStages - 1
                /\ (Resume(g) /\ r2.pc = "idle" /\ ~Superseded(g)) =>
                        AutoPos(r) = <<Len(r.text) - 1, NumStages - 1>>
       /\ manualStepForward =>
            LET p == <<manualCharIndex, manualStageIndex>>
                q == <<manualCharIndex', manualStageIndex'>>
            IN  \/ q = p /\ p = <<Len(manualPreviews) - 1, NumStages - 1>>
                \/ q = SuccPos(p) /\ LexLess(p, q) /\ q[1] <= Len(manualPreviews) - 1]_vars

\* a manual forward traversal has reached the last stage of the last
\* character with every character recorded once, in order
C6_Witness ==
    /\ manualMode /\ manualPrepared /\ ~isPlaying
    /\ Len(manualPreviews) = MaxLen
    /\ manualCharIndex = MaxLen - 1
    /\ manualStageIndex = NumStages - 1
    /\ Len(completedSteps) = MaxLen
    /\ \A j \in 1..MaxLen : completedSteps[j].charIndex = j - 1

\* C7 (as claimed, step-back): a manual step-back that arrives at the
\* terminal stage of the previous character leaves a record of that
\* character in completedSteps.
C7_StepBackCompletes ==
    [][(manualStepBack /\ manualStageIndex' = NumStages - 1
            /\ manualCharIndex' # manualCharIndex)
          => HasCharIndex(completedSteps', manualCharIndex')]_vars

\* C8 (as claimed): completedSteps never holds two records with the same
\* charIndex.
C8_NoDuplicateCharIndex ==
    \A j, k \in 1..Len(completedSteps) :
        j # k => completedSteps[j].charIndex # completedSteps[k].charIndex

\* the step on which run g of the given kind leaves its character loop and returns
Finishes(g, kind) ==
    /\ Resume(g)
    /\ ~Superseded(g)
    /\ runs[g].kind = kind
    /\ runs[g].pc = "complete"
    /\ runs[g].i = Len(runs[g].text)

RecordsOf(text, steps) ==
    /\ Len(steps) = Len(text)
    /\ \A j \in 1..Len(steps) : steps[j].charIndex = j - 1 /\ steps[j].char = text[j]

\* C9 (result of an encryption run): when an auto encryption run over an
\* N-character text returns without having been stopped, completedSteps holds
\* exactly N records with charIndex 0..N-1 in input order, finalEncryptedText
\* and encryptionNonce are non-empty and isPlaying is false.
C9_EncryptionRunResult ==
    [][\A g \in RunIds : Finishes(g, "enc") =>
            /\ RecordsOf(runs[g].text, completedSteps')
            /\ Len(completedSteps') > 0
            /\ \A j \in 1..Len(completedSteps') : completedSteps'[j].stage = "encrypted"
            /\ Truthy(finalEncryptedText')
            /\ finalEncryptedText' = runs[g].full
            /\ Truthy(encryptionNonce')
            /\ ~isPlaying']_vars

\* an encryption run of the longest text has returned
C9_Witness ==
    /\ ~isPlaying
    /\ LiveRuns = {}
    /\ runIdRef = 1
    /\ ~manualPrepared
    /\ Truthy(finalEncryptedText)
    /\ Truthy(encryptionNonce)
    /\ Len(completedSteps) = MaxLen
    /\ completedSteps[MaxLen].stage = "encrypted"

\* the envelope in the decryption form is the ciphertext of text under the
\* stored key material
EnvelopeOf(text) ==
    /\ alicePrivateKey # 0 /\ bobPublicKey # 0
    /\ \E n \in Nonces :
        /\ encryptedInput =
              encryptMessage(text, deriveSharedSecret(alicePrivateKey, bobPublicKey), n).ciphertext
        /\ nonceInput = encodeBase64(<<n>>)

\* C10 (as claimed): a decryption run started on the envelope of a text T
\* under the stored key material decrypts T, and when it returns decryptedText
\* is T and completedSteps holds one record per character of T, in order.
C10_RoundTrip ==
    [][\A g \in RunIds :
          /\ \A text \in Texts \ {<<>>} :
                (visualizeDecryption /\ ~DecryptionRejected /\ EnvelopeOf(text)
                    /\ runs[g].pc = "idle" /\ runs'[g].pc \in Waiting)
                => (runs'[g].kind = "dec" /\ runs'[g].text = text)
          /\ Finishes(g, "dec") =>
                /\ decryptedText' = runs[g].text
                /\ RecordsOf(runs[g].text, completedSteps')]_vars

\* the rank of a manual position in the forward traversal
Rank(c, sg) == (c * NumStages) + sg
Min(a, b) == IF a <= b THEN a ELSE b

\* C11 (manual traversal ends): a manual preparation puts the position at
\* rank 0; each step-forward on N previews raises the rank by one until the
\* last rank N x (stage count) - 1, the terminal stage of character N-1, so N
\* x (stage count) calls from the prepared position end there; and a
\* step-forward at the last rank leaves the position, currentStep and
\* completedSteps unchanged.
C11_ForwardTraversalEnds ==
    [][/\ (visualizeEncryption /\ ~EncryptionRejected /\ manualMode) =>
              /\ Rank(manualCharIndex', manualStageIndex') = 0
              /\ Len(manualPreviews') = Len(inputText)
       /\ (manualStepForward /\ Len(manualPreviews) > 0) =>
              LET last == (Len(manualPreviews) * NumStages) - 1
                  rank == Rank(manualCharIndex, manualStageIndex)
                  rank2 == Rank(manualCharIndex', manualStageIndex')
              IN  /\ rank2 = Min(rank + 1, last)
                  /\ (rank < last /\ rank2 = last) =>
                         /\ manualCharIndex' = Len(manualPreviews) - 1
                         /\ currentStep'.charIndex = Len(manualPreviews) - 1
                         /\ currentStep'.stage = stagesOrder[NumStages]
                  /\ rank = last =>
                         UNCHANGED <<manualCharIndex, manualStageIndex, currentStep,
                                     completedSteps>>]_vars

\* the manual traversal of the longest text stands at its last rank with the
\* last character displayed at the terminal stage
C11_Witness ==
    /\ manualMode /\ manualPrepared
    /\ Len(manualPreviews) = MaxLen
    /\ Rank(manualCharIndex, manualStageIndex) = (MaxLen * NumStages) - 1
    /\ currentStep # NullStep
    /\ currentStep.charIndex = MaxLen - 1
    /\ currentStep.stage = stagesOrder[NumStages]
    /\ HasCharIndex(completedSteps, MaxLen - 1)

\* C12 (manual transition rule): step-forward from (c, s) gives (c, s+1)
\* when s is not the last stage, (c+1, 0) when s is the last stage and c is
\* not the last character, and changes nothing at the last stage of the last
\* character; step-back gives (c, s-1) when s > 0, (c-1, last stage) when
\* s = 0 and c > 0, and changes nothing at (0, 0).
C12_ManualTransitionRule ==
    [][LET c == manualCharIndex
           sg == manualStageIndex
           lastStage == NumStages - 1
           lastChar == Len(manualPreviews) - 1
           pos2 == <<manualCharIndex', manualStageIndex'>>
           still == UNCHANGED <<manualCharIndex, manualStageIndex, currentStep, completedSteps>>
       IN  /\ (manualStepForward /\ lastChar >= 0) =>
                  IF sg < lastStage THEN pos2 = <<c, sg + 1>>
                  ELSE IF c < lastChar THEN pos2 = <<c + 1, 0>>
                  ELSE still
           /\ (manualStepBack /\ lastChar >= 0) =>
                  IF sg > 0 THEN pos2 = <<c, sg - 1>>
                  ELSE IF c > 0 THEN pos2 = <<c - 1, lastStage>>
                  ELSE still]_vars

\* a step-back has crossed from the second character to the last stage of
\* the first one, which no forward step had visited
C12_Witness ==
    /\ manualMode /\ manualPrepared /\ ~isPlaying
    /\ manualCharIndex = 0
    /\ manualStageIndex = NumStages - 1
    /\ currentStep # NullStep
    /\ currentStep.charIndex = 0
    /\ currentStep.stage = stagesOrder[NumStages]
    /\ completedSteps = <<>>

\* C13 (jump to character): manualGotoChar(k) with 0 <= k < number of
\* previews sets the position to (k, 0) and shows character k at the first
\* stage; with k outside that range it changes none of the position,
\* currentStep and completedSteps, and raises no error.
C13_GotoCharInRangeOrNoop ==
    [][\A k \in GotoTargets :
          GotoChar(k) =>
             IF 0 <= k /\ k < Len(manualPreviews)
             THEN /\ manualCharIndex' = k
                  /\ manualStageIndex' = 0
                  /\ currentStep'.charIndex = k
                  /\ currentStep'.stage = stagesOrder[1]
             ELSE /\ UNCHANGED <<manualCharIndex, manualStageIndex, currentStep,
                                 completedSteps>>
                  /\ lastOp' = Quiet]_vars

\* a jump has put the position on the last character without any character
\* having been stepped through
C13_Witness ==
    /\ manualMode /\ manualPrepared /\ ~isPlaying
    /\ manualCharIndex = MaxLen - 1
    /\ manualStageIndex = 0
    /\ currentStep # NullStep
    /\ currentStep.charIndex = MaxLen - 1
    /\ currentStep.stage = stagesOrder[1]
    /\ completedSteps = <<>>

\* C14 (as claimed): a manual move to position (c, s) of a prepared
\* encryption or decryption shows a record with the stage tag that the auto
\* driver of the same direction shows at stage index s, and, when the move
\* comes from the controls of that direction, with the same stage label.
C14_AutoManualAgree ==
    [][((manualStepForward \/ manualStepBack \/ manualGotoChar)
           /\ ~isPlaying
           /\ <<manualCharIndex', manualStageIndex'>> # <<manualCharIndex, manualStageIndex>>)
          => LET auto == RunStages(IF manualBase = "encrypt" THEN "enc" ELSE "dec")
                        [manualStageIndex' + 1]
             IN  /\ currentStep'.stage = auto.stage
                 /\ currentStep'.stageLabel = stageLabelMap(currentStep'.stage, manualBase)
                        => currentStep'.stageLabel = auto.stageLabel]_vars

\* C15 (as claimed): a switch between Auto and Manual mode leaves
\* manualPrepared false and no previews, no current step and no completed
\* records of the earlier run.
C15_ModeSwitchDiscards ==
    [][setManualMode =>
          /\ ~manualPrepared'
          /\ manualPreviews' = <<>>
          /\ currentStep' = NullStep
          /\ completedSteps' = <<>>]_vars

\* C16 (as claimed): runIdRef never decreases, and every start of a run, in
\* Auto or in Manual mode, and every stop or reset increases it.
C16_CounterIncreasesOnStart ==
    [][/\ runIdRef' >= runIdRef
       /\ (visualizeEncryption /\ ~EncryptionRejected) => runIdRef' > runIdRef
       /\ (visualizeDecryption /\ ~DecryptionRejected) => runIdRef' > runIdRef
       /\ (stopVisualization \/ reset) => runIdRef' > runIdRef]_vars

\* the shared secret a decryption uses when the random source returns key pair k
DecryptionSecret(k) ==
    IF alicePrivateKey # 0 /\ bobPublicKey # 0
    THEN deriveSharedSecret(alicePrivateKey, bobPublicKey)
    ELSE deriveSharedSecret(generateKeyPair(k).privateKey, generateKeyPair(k).publicKey)

\* C17 (as claimed): a decryption request that is not rejected and whose
\* envelope does not decrypt issues the failure notification, and the step
\* that issues it leaves isPlaying false, decryptedText empty and the
\* completed records that were visible before it in place.
C17_FailureKeepsProgress ==
    [][/\ (/\ visualizeDecryption
            /\ ~DecryptionRejected
            /\ \A k \in Keys : ~DecryptOk(encryptedInput, nonceInput, DecryptionSecret(k)))
          => lastOp'.res = "alert"
       /\ (visualizeDecryption /\ lastOp'.res = "alert") =>
              /\ ~isPlaying'
              /\ decryptedText' = <<>>
              /\ completedSteps' = completedSteps]_vars

\* C18 (as claimed): whatever text the form holds, the ciphertext and nonce
\* that encryptMessage returns for it decrypt, under the same shared secret,
\* to exactly that text.
C18_AdapterRoundTrip ==
    [][(handleEncrypt /\ toast' = "Encrypted") =>
          /\ DecryptOk(toolCiphertext', toolNonce', toolSharedSecret)
          /\ decryptMessage(toolCiphertext', toolNonce', toolSharedSecret) = toolPlaintext]_vars

\* the texts whose envelopes can be in the form: what is typed and what a
\* decryption puts back
EncryptedTexts == {t \in ToolTexts : ~Blank(t)} \cup {TextDecode(TextEncode(t)) : t \in ToolTexts}

\* the form holds the envelope encryptMessage made for text t under the
\* current shared secret
GenuineFor(t) ==
    \E n \in Nonces :
        /\ toolCiphertext = encryptMessage(t, toolSharedSecret, n).ciphertext
        /\ toolNonce = encodeBase64(<<n>>)

\* C19 (all or nothing): a decryption of a ciphertext, nonce and shared
\* secret that are those of an encryption returns the whole plaintext that
\* was encrypted; with any other ciphertext, nonce or shared secret it
\* fails, the failure is reported, and no plaintext, whole or partial,
\* reaches the form.
C19_DecryptAllOrNothing ==
    [][(handleDecrypt /\ Truthy(toolCiphertext) /\ Truthy(toolNonce)) =>
          IF \E t \in EncryptedTexts : GenuineFor(t)
          THEN /\ toast' = "Decrypted"
               /\ \E t \in EncryptedTexts :
                     GenuineFor(t) /\ toolPlaintext' = TextDecode(TextEncode(t))
          ELSE /\ toast' = "Decryption failed"
               /\ toolPlaintext' = toolPlaintext
               /\ lastOp' = Quiet]_vars

\* a decryption of an envelope whose last ciphertext byte was altered has
\* just been refused
C19_Witness ==
    /\ toast = "Decryption failed"
    /\ toolSharedSecret # 0
    /\ toolCiphertext.kind = "b64"
    /\ Len(toolCiphertext.bytes) > TagLen
    /\ toolNonce \in {encodeBase64(<<n>>) : n \in Nonces}
    /\ \E t \in EncryptedTexts, n \in Nonces :
          /\ FlipLast(toolCiphertext) = encryptMessage(t, toolSharedSecret, n).ciphertext
          /\ toolNonce = encodeBase64(<<n>>)
          /\ toolPlaintext = t

\* C20 (isValidKey is total): on every key text isValidKey returns without
\* throwing, true exactly when the text is base64 of 32 bytes; the handler
\* that calls it derives a secret in that case and reports an invalid key
\* in every other.
C20_IsValidKeyTotal ==
    [][handleDeriveSecret =>
          LET key == toolTheirPublicKey
              is32 == key.kind = "b64" /\ Len(key.bytes) = 32
          IN  /\ \A k \in KeyInputs :
                    isValidKey(k) = [threw |-> FALSE,
                                     value |-> (k.kind = "b64" /\ Len(k.bytes) = 32)]
              /\ lastOp' = Quiet
              /\ toast' = IF is32 THEN "Shared Secret Derived" ELSE "Invalid public key"]_vars

\* a key text that is not base64 has just been refused without an exception
C20_Witness ==
    /\ myKeys # NullKeys
    /\ toolTheirPublicKey = Garbage
    /\ toast = "Invalid public key"
    /\ lastOp = Quiet

\* C21 (deriveSharedSecret rejects malformed keys): a call of
\* deriveSharedSecret in which the private-key text or the public-key text
\* does not decode to exactly 32 bytes throws and returns no secret.
C21_DeriveRejectsBadKeys ==
    [][CallDeriveSharedSecret =>
          LET is32(key) == key.kind = "b64" /\ Len(key.bytes) = 32
          IN  (~is32(fnArgs.myPrivateKey) \/ ~is32(fnArgs.theirPublicKey))
                 => fnResult' = [fn |-> "deriveSharedSecret", threw |-> TRUE]]_vars

\* a call with a well-formed public key and a private key of one byte has
\* thrown
C21_Witness ==
    /\ fnResult = Threw("deriveSharedSecret")
    /\ fnArgs.theirPublicKey \in {KeyString(k) : k \in Keys}
    /\ fnArgs.myPrivateKey = encodeBase64(<<1>>)

\* bit k of a byte
Bit(n, k) == (n \div (2 ^ k)) % 2

\* C22 (xorBytes): xorBytes(a, b) returns, without failing, a sequence as
\* long as the longer of a and b whose element i has in every bit position
\* the sum modulo 2 of the bits of a[i] and b[i], an index beyond the end of
\* the shorter sequence counting as 0.
C22_XorBytesElementwise ==
    [][CallXorBytes =>
          LET a == fnArgs.a
              b == fnArgs.b
              out == fnResult'.value
              el(s, i) == IF i <= Len(s) THEN s[i] ELSE 0
          IN  /\ fnResult'.threw = FALSE
              /\ Len(out) = IF Len(a) >= Len(b) THEN Len(a) ELSE Len(b)
              /\ \A i \in 1..Len(out) :
                    /\ out[i] \in 0..255
                    /\ \A k \in 0..7 :
                          Bit(out[i], k) = (Bit(el(a, i), k) + Bit(el(b, i), k)) % 2]_vars

\* xorBytes has been called with a shorter first argument, neither empty,
\* and the tail of the longer one came through
C22_Witness ==
    /\ fnResult.fn = "xorBytes"
    /\ Len(fnArgs.a) > 0
    /\ Len(fnArgs.a) < Len(fnArgs.b)
    /\ Len(fnResult.value) = Len(fnArgs.b)
    /\ fnResult.value[Len(fnArgs.b)] = fnArgs.b[Len(fnArgs.b)]
    /\ fnResult.value[Len(fnArgs.b)] # 0
    /\ fnResult.value[1] # fnArgs.a[1]

\* every record the page holds: the displayed step, the completed list and
\* the manual previews
HeldRecords ==
    (IF currentStep = NullStep THEN {} ELSE {currentStep})
       \cup {completedSteps[j] : j \in 1..Len(completedSteps)}
       \cup {manualPreviews[j] : j \in 1..Len(manualPreviews)}

\* C23 (XOR animation matches the ciphertext): in every record the page
\* holds, plaintextByte is the first UTF-8 byte of the record's character,
\* and the byte the animation computes, plaintextByte XOR keystreamByte, is
\* the first byte of the record's ciphertextBytes.
C23_XorAnimationConsistent ==
    \A rec \in HeldRecords :
        /\ rec.plaintextByte = TextEncode(<<rec.char>>)[1]
        /\ rec.ciphertextBytes # <<>>
        /\ resultByte(rec) = rec.ciphertextBytes[1]

\* the XOR animation of a two-byte character is on screen during a run
C23_Witness ==
    /\ isPlaying
    /\ showXorAnimation
    /\ currentStep # NullStep
    /\ currentStep.stage = "xor-operation"
    /\ Len(currentStep.charBytes) = 2
    /\ currentStep.plaintextByte = 195
    /\ currentStep.keystreamByte # currentStep.ciphertextBytes[1]

\* C24 (as claimed): whatever the speed profile, the pause handed to wait()
\* after a stage other than xor-operation is shorter than the pause of the
\* same profile after the xor-operation stage.
C24_XorPauseLongest ==
    (fnResult.fn = "wait" /\ fnResult.stage \notin {"xor-operation", "complete"})
        => fnResult.value < WaitTime(fnArgs.speed, "xor-operation")

\* the fields of a record other than its stage and its label
DataFields(rec) == DOMAIN rec \ {"stage", "stageLabel"}

\* C25 (manual stepping does no cryptographic work): manualStepForward,
\* manualStepBack and manualGotoChar leave manualPreviews, the stored keys,
\* finalEncryptedText and encryptionNonce unchanged, and when they move the
\* position the record they show is the prepared preview of the target
\* character in every field but stage and stageLabel, the stage being the
\* one of the target stage index.
C25_ManualStepOnlyMoves ==
    [][(manualStepForward \/ manualStepBack \/ manualGotoChar) =>
          /\ UNCHANGED <<manualPreviews, alicePrivateKey, bobPublicKey, finalEncryptedText,
                         encryptionNonce, manualPrepared>>
          /\ <<manualCharIndex', manualStageIndex'>> # <<manualCharIndex, manualStageIndex>> =>
                LET preview == manualPreviews[manualCharIndex' + 1]
                IN  /\ DOMAIN currentStep' = DOMAIN preview
                    /\ \A f \in DataFields(preview) : currentStep'[f] = preview[f]
                    /\ currentStep'.stage = stagesOrder[manualStageIndex' + 1]]_vars

\* in the middle of a manual traversal: the second character is shown at
\* its XOR stage as its preview with the stage replaced, the first one is
\* recorded
C25_Witness ==
    /\ manualMode /\ manualPrepared /\ ~isPlaying
    /\ Len(manualPreviews) = MaxLen
    /\ manualCharIndex = 1
    /\ manualStageIndex = 2
    /\ currentStep # NullStep
    /\ currentStep.stage = "xor-operation"
    /\ currentStep.stage # manualPreviews[2].stage
    /\ \A f \in DataFields(currentStep) : currentStep[f] = manualPreviews[2][f]
    /\ Len(completedSteps) = 1
    /\ Truthy(finalEncryptedText)

\* run g is the current run and waits on a timer
Running(g) == runIdRef = g /\ runs[g].pc \in Waiting

\* run g shows the last stage of the last character of its text
LastStageShown(g) ==
    /\ Running(g)
    /\ runs[g].pc = "stage"
    /\ runs[g].i = Len(runs[g].text)
    /\ runs[g].s = Len(RunStages(runs[g].kind))
    /\ currentStep # NullStep
    /\ currentStep.charIndex = Len(runs[g].text) - 1
    /\ currentStep.stage = RunStages(runs[g].kind)[Len(RunStages(runs[g].kind))].stage

\* run g has returned with its result published
Published(g) ==
    /\ runIdRef = g
    /\ runs[g].pc = "idle"
    /\ ~isPlaying
    /\ Truthy(finalEncryptedText) \/ decryptedText # <<>>
    /\ Len(completedSteps) > 0

\* C26 (an uninterrupted auto run terminates): when pending timers always
\* fire, a run that waits on a timer stops waiting; a run that stops
\* waiting without having been superseded (stop, reset, unmount) does so
\* after the completion of its last character, whose last stage it had
\* shown, and leaves the final result published and isPlaying false.
C26_AutoRunTerminates ==
    /\ (LiveRuns # {}) ~> (LiveRuns = {})
    /\ [][\A g \in RunIds :
            /\ (Running(g) /\ runs'[g].pc = "idle" /\ runIdRef' = g) =>
                  /\ runs[g].pc = "complete"
                  /\ runs[g].i = Len(runs[g].text)
                  /\ Published(g)'
            /\ (Running(g) /\ runs[g].pc = "stage" /\ runs'[g].pc = "complete") =>
                  runs[g].s = Len(RunStages(runs[g].kind))
            /\ (Resume(g) /\ runs'[g].pc = "stage"
                   /\ runs'[g].i = Len(runs[g].text)
                   /\ runs'[g].s = Len(RunStages(runs[g].kind))) =>
                  LastStageShown(g)']_vars

\* the first run shows the last stage of the last character of the longest
\* text
C26_Witness ==
    /\ LastStageShown(1)
    /\ isPlaying
    /\ Len(runs[1].text) = MaxLen
    /\ Len(completedSteps) = MaxLen - 1

IsPrefix(s, t) == Len(s) <= Len(t) /\ SubSeq(t, 1, Len(s)) = s

\* a request that starts an auto run
AutoStart ==
    \/ visualizeEncryption /\ ~EncryptionRejected /\ ~manualMode
    \/ visualizeDecryption /\ ~DecryptionRejected /\ ~(page = "Virtualization" /\ manualMode)

\* C27 (the completed list is append-only within a run): while the page is
\* mounted, manualStepBack, manualGotoChar and stopVisualization leave
\* completedSteps as it is; every other step either keeps the records it
\* held, in their order, as a prefix of the new list, or is the start of an
\* auto run or a reset, which empty the list.
C27_CompletedAppendOnly ==
    [][mounted' =>
          /\ (manualStepBack \/ manualGotoChar \/ stopVisualization) =>
                 completedSteps' = completedSteps
          /\ \/ IsPrefix(completedSteps, completedSteps')
             \/ completedSteps' = <<>> /\ (AutoStart \/ reset)]_vars

\* every character of a manual traversal is recorded and the position has
\* gone back to the first character: the records are still there, in order
C27_Witness ==
    /\ manualMode /\ manualPrepared /\ ~isPlaying
    /\ manualCharIndex = 0
    /\ manualStageIndex = 1
    /\ Len(completedSteps) = MaxLen
    /\ \A j \in 1..MaxLen : completedSteps[j].charIndex = j - 1
    /\ currentStep # NullStep
    /\ currentStep.charIndex = 0

\* C28 (empty input is a no-op): a request for an encryption, in Auto or in
\* Manual mode, with empty input text, and a request for a decryption with
\* an empty ciphertext field or an empty nonce field, change nothing of the
\* state of the page (isPlaying, the run counter, the displayed step, the
\* completed records, the keys, the results) and raise no error.
C28_EmptyInputNoop ==
    [][(\/ visualizeEncryption /\ inputText = <<>>
        \/ visualizeDecryption /\ (encryptedInput = EmptyStr \/ nonceInput = EmptyStr))
          => /\ UNCHANGED progVars
             /\ lastOp' = Quiet]_vars

\* a run has left records and a result, the input text has been cleared and
\* the decryption form holds a ciphertext but no nonce: both requests have
\* something to preserve
C28_Witness ==
    /\ mounted /\ ~isPlaying
    /\ inputText = <<>>
    /\ encryptedInput # EmptyStr
    /\ nonceInput = EmptyStr
    /\ Len(completedSteps) = MaxLen
    /\ Truthy(finalEncryptedText)
    /\ alicePrivateKey # 0

\* a request that starts an auto run or prepares a manual one
StartOrPrepare == visualizeEncryption \/ visualizeDecryption

\* an encryption run was stopped and nothing has been started or prepared
\* since: its nonce is stored but no ciphertext was published (a run that
\* returns and a manual preparation publish one), nothing plays, and the
\* decryption form never had a nonce, so no decryption was started either
AfterStop ==
    /\ mounted
    /\ ~isPlaying
    /\ Truthy(encryptionNonce)
    /\ ~Truthy(finalEncryptedText)
    /\ nonceInput = EmptyStr

\* C29 (as claimed): at most one run timer is pending at any time;
\* stopVisualization cancels it and leaves isPlaying false and currentStep
\* null; and after a stop every step that is neither a start nor a manual
\* preparation leaves isPlaying false and currentStep null.
C29_StoppedRunNotResumed ==
    [][/\ Cardinality(timers') <= 1
       /\ stopVisualization =>
              (timers' = {} /\ LiveRuns' = {} /\ ~isPlaying' /\ currentStep' = NullStep)
       /\ (AfterStop /\ mounted' /\ ~StartOrPrepare) =>
              (~isPlaying' /\ currentStep' = NullStep)]_vars

(* C30: completedSteps only holds records of the current run: every accepted
   start of a run, manual preparation included, leaves no record of an
   earlier run in the Completed Operations list. *)
C30_CompletedOnlyCurrentRun ==
    [][(\/ visualizeEncryption /\ ~EncryptionRejected
        \/ visualizeDecryption /\ ~DecryptionRejected) => completedSteps' = <<>>]_vars

\* a step that prepares the manual mode (encryption, or decryption on Virtualization)
ManualPrepares ==
    \/ visualizeEncryption /\ ~EncryptionRejected /\ manualMode
    \/ /\ visualizeDecryption /\ ~DecryptionRejected
       /\ page = "Virtualization" /\ manualMode
       /\ lastOp'.res # "threw"

\* a step-forward, step-back or jump that moves the position
ManualMoves ==
    /\ manualStepForward \/ manualStepBack \/ manualGotoChar
    /\ <<manualCharIndex, manualStageIndex>>' # <<manualCharIndex, manualStageIndex>>

(* C31: right after a manual preparation and after every step-forward,
   step-back and jump the displayed record agrees with the index pair:
   currentStep.charIndex = manualCharIndex and
   currentStep.stage = stagesOrder[manualStageIndex]. *)
C31_DisplayAgreesWithPosition ==
    [][(ManualPrepares \/ ManualMoves) =>
          /\ manualPrepared'
          /\ currentStep' # NullStep
          /\ currentStep'.charIndex = manualCharIndex'
          /\ currentStep'.stage = stagesOrder[manualStageIndex' + 1]]_vars

(* C32: whenever manualPrepared is true the preview list is non-empty and
   the position is in range: 0 <= manualCharIndex < Len(manualPreviews) and
   0 <= manualStageIndex < Len(stagesOrder). *)
C32_PreparedPositionInRange ==
    manualPrepared =>
        /\ Len(manualPreviews) > 0
        /\ manualCharIndex \in 0..(Len(manualPreviews) - 1)
        /\ manualStageIndex \in 0..(Len(stagesOrder) - 1)

\* the stepper has walked to the last stage of the last of MaxLen characters
C32_Witness ==
    /\ manualPrepared
    /\ Len(manualPreviews) = MaxLen
    /\ manualCharIndex = Len(manualPreviews) - 1
    /\ manualStageIndex = Len(stagesOrder) - 1
    /\ currentStep # NullStep
    /\ currentStep.stage = "encrypted"

KeysStored == alicePrivateKey # 0 /\ bobPublicKey # 0

\* the stored key material is the key pair drawn as k
StoredIs(k) ==
    /\ alicePrivateKey = generateKeyPair(k).privateKey
    /\ bobPublicKey = generateKeyPair(k).publicKey

\* the decryption form holds the envelope of text sealed under key pair k
SealedBy(text, k) ==
    \E n \in Nonces : /\ encryptedInput = Envelope(text, k, n).ciphertext
                      /\ nonceInput = Envelope(text, k, n).nonce

(* C33: a decryption run on the envelope an encryption run produced succeeds
   exactly when the key material that run stored is still the stored key
   material; otherwise (no key material stored, as after a reset or before
   any encryption, or the key material of a later run) the decryption fails
   with the notification, decryptedText is empty and nothing is playing.  A
   run that succeeded and returns publishes the text that was encrypted. *)
C33_DecryptionNeedsStoredKeys ==
    [][/\ \A text \in Texts \ {<<>>}, k \in Keys :
            (visualizeDecryption /\ ~DecryptionRejected /\ SealedBy(text, k)) =>
                IF KeysStored /\ StoredIs(k)
                THEN /\ lastOp'.res # "alert"
                     /\ isPlaying'
                     /\ runs'[runIdRef'].pc \in Waiting
                     /\ runs'[runIdRef'].kind = "dec"
                     /\ runs'[runIdRef'].text = text
                ELSE /\ lastOp'.res = "alert"
                     /\ decryptedText' = <<>>
                     /\ ~isPlaying'
                     /\ ~LiveKind("dec")'
       /\ \A g \in RunIds : Finishes(g, "dec") => decryptedText' = runs[g].text]_vars

\* the envelope of an earlier run was refused under the key material of a later one
C33_Witness ==
    /\ lastOp = [op |-> "visualizeDecryption", res |-> "alert"]
    /\ KeysStored
    /\ runIdRef >= 2
    /\ \E text \in Texts \ {<<>>}, k \in Keys : SealedBy(text, k) /\ ~StoredIs(k)
    /\ decryptedText = <<>>

\* no key material is stored and the envelope of an earlier run was refused
C33_WitnessNoKeys ==
    /\ lastOp = [op |-> "visualizeDecryption", res |-> "alert"]
    /\ ~KeysStored
    /\ \E text \in Texts \ {<<>>}, k \in Keys : SealedBy(text, k)

(* C34: whenever finalEncryptedText is non-empty it is the ciphertext of the
   current inputText: decrypting (finalEncryptedText, encryptionNonce) with
   the stored key material yields the inputText shown next to it. *)
C34_PackageMatchesInput ==
    Truthy(finalEncryptedText) =>
        /\ KeysStored
        /\ DecryptOk(finalEncryptedText, encryptionNonce,
                     deriveSharedSecret(alicePrivateKey, bobPublicKey))
        /\ decryptMessage(finalEncryptedText, encryptionNonce,
                          deriveSharedSecret(alicePrivateKey, bobPublicKey)) = inputText

FinalResults == <<finalEncryptedText, decryptedText>>

(* C35: stop keeps partial progress: stopVisualization during an auto run
   leaves completedSteps as it was, sets currentStep to null and isPlaying to
   false, and the final result of the stopped run is never published: the
   stop leaves no run and no timer behind, the result the run would have set
   is empty after the stop, and while nothing is playing the final results
   change only by a start, a manual preparation, a reset or the unmount. *)
C35_StopKeepsProgress ==
    [][/\ stopVisualization =>
              /\ completedSteps' = completedSteps
              /\ currentStep' = NullStep
              /\ ~isPlaying'
              /\ FinalResults' = FinalResults
              /\ LiveRuns' = {}
              /\ timers' = {}
       /\ (stopVisualization /\ LiveKind("enc")) => ~Truthy(finalEncryptedText')
       /\ (stopVisualization /\ LiveKind("dec")) => decryptedText' = <<>>
       /\ (~isPlaying /\ FinalResults' # FinalResults) =>
              (StartOrPrepare \/ reset \/ Unmount)]_vars

\* an encryption run was stopped after its first character had been completed
C35_Witness ==
    /\ mounted
    /\ ~isPlaying
    /\ LiveRuns = {}
    /\ timers = {}
    /\ currentStep = NullStep
    /\ Truthy(encryptionNonce)
    /\ ~Truthy(finalEncryptedText)
    /\ ~manualPrepared
    /\ Len(inputText) = MaxLen
    /\ Len(completedSteps) = 1

\* the values the component state has after construction
InitialState ==
    /\ inputText = <<>> /\ encryptedInput = EmptyStr /\ nonceInput = EmptyStr
    /\ currentStep = NullStep
    /\ completedSteps = <<>>
    /\ finalEncryptedText = EmptyStr /\ encryptionNonce = EmptyStr /\ decryptedText = <<>>
    /\ alicePrivateKey = 0 /\ bobPublicKey = 0
    /\ ~manualMode /\ ~manualPrepared /\ manualPreviews = <<>>
    /\ manualCharIndex = 0 /\ manualStageIndex = 0
    /\ ~isPlaying
    /\ ~showXorAnimation /\ ~showNonceCombine /\ ~showKeyDerivation

(* C36: reset returns the component to its initial state from any state it
   can be called in: empty inputs, no current step, empty completed list,
   empty final ciphertext, nonce and decrypted text, no stored keys, manual
   mode off and not prepared with an empty preview list and position (0, 0),
   isPlaying false; and it invalidates every run started before it. *)
C36_ResetRestoresInitial ==
    [][reset =>
          /\ InitialState'
          /\ runIdRef' > runIdRef
          /\ \A g \in 1..runIdRef : Superseded(g)'
          /\ LiveRuns' = {}
          /\ timers' = {}]_vars

\* a reset has been made after a run had been started
C36_Witness ==
    /\ mounted
    /\ InitialState
    /\ runIdRef >= 2
    /\ timeoutRef # 0

\* a change of the three message fields that is not made by typing into them
MessageFieldsWritten ==
    /\ <<toolCiphertext, toolNonce, toolPlaintext>>' # <<toolCiphertext, toolNonce, toolPlaintext>>
    /\ ~(setCiphertext \/ setNonce \/ setPlaintext)

(* C37: in the Tool page a stored shared secret was derived from the stored
   key pair: generating a key pair clears the stored secret, and while no
   secret is stored encrypt and decrypt change neither ciphertext, nonce nor
   plaintext. *)
C37_SecretBelongsToKeys ==
    /\ [](toolSharedSecret # 0 =>
            /\ myKeys # NullKeys
            /\ \E k \in Keys :
                  toolSharedSecret = deriveSharedSecret(myKeys.privateKey, k))
    /\ [][/\ handleGenerateKeys => toolSharedSecret' = 0
          /\ toolSharedSecret = 0 => ~MessageFieldsWritten]_vars

\* a key pair was generated while a ciphertext made under an earlier secret is in the form
C37_Witness ==
    /\ toast = "Keys Generated"
    /\ toolSharedSecret = 0
    /\ myKeys # NullKeys
    /\ isValidKey(toolTheirPublicKey).value
    /\ \E t \in ToolTexts, k \in Keys, pk \in Keys, n \in Nonces :
          /\ ~Blank(t)
          /\ toolCiphertext = encryptMessage(t, deriveSharedSecret(k, pk), n).ciphertext
          /\ deriveSharedSecret(k, pk) \notin {deriveSharedSecret(myKeys.privateKey, j) : j \in Keys}

(* C38: in EnhancedXorVisualization, when the inputs change while a bit
   animation is still running, the earlier animation makes no further state
   update: after the restart currentBitIndex only goes up, from -1 to 7, and
   isComplete becomes true only after the new animation has shown bit 7. *)
C38_EarlierAnimationSilent ==
    [][/\ \A a \in EffectIds :
            (animateBitsResume(a) /\ a # enhEffects) =>
                UNCHANGED <<currentBitIndex, isComplete>>
       /\ ~EnhInputsChange => currentBitIndex' >= currentBitIndex
       /\ (isComplete' /\ ~isComplete) =>
              (animations[enhEffects].pc = "final" /\ currentBitIndex = NumBits - 1)]_vars

(* C39: in XorVisualization, after the component is unmounted or its inputs
   change, the animation started earlier stops: its interval ticks no more
   (no setCurrentBit, no setCompleted, no bit sound) and its onComplete is
   not called. *)
C39_EarlierIntervalStops ==
    [][\A e \in EffectIds :
          (XorIntervalTick(e) \/ XorOnCompleteFires(e)) =>
              (xorMounted /\ e = xorEffects)]_vars

====
